---- MODULE Spec2Model ----
(***************************************************************************)
(* Call Lifecycle Coordinator of the voice agent platform.                 *)
(*                                                                         *)
(* The state is the content of the tables agents, phone_numbers and calls  *)
(* (app/models/database.py), the background worker task that               *)
(* CallManager._start_livekit_call creates for every call, and the value   *)
(* returned by the last operation.  One action models one handler:         *)
(* CallManager.initiate_call, CallManager.end_call,                        *)
(* CallManager.update_call_status, the call update route, the routes that  *)
(* create, update and delete agents and phone numbers, and one run of the  *)
(* worker task CallManager._run_livekit_worker.  Further specifications    *)
(* follow the session of one call (workers/call_worker.py), the tool       *)
(* executor up to and from its HTTP request (core/tool_executor.py), and   *)
(* the operations that make an executor of their own next to the routes    *)
(* of the tables tools and agent_tools (routes/tools.py, routes/agents.py).*)
(*                                                                         *)
(* The server is one uvicorn process with one event loop (app/main.py      *)
(* 89-95), the handlers are coroutines whose database calls are            *)
(* synchronous, so a handler runs without interleaving up to its first     *)
(* suspension; none of the handlers modelled here suspends before its      *)
(* last commit.                                                            *)
(***************************************************************************)
EXTENDS Integers, Sequences, FiniteSets, TLC

\* ------------------------------------------------------------------------
\* Bounds of the model
\* ------------------------------------------------------------------------
MaxCalls == 2
MaxSteps == 4
MaxAgents == 3

\* ------------------------------------------------------------------------
\* Values
\* ------------------------------------------------------------------------
\* Python None in a string-typed column or argument
None == "None"
\* Optional[int]: the empty set is None, {n} is the integer n
NoInt == {}
Some(n) == {n}
\* truthiness of an Optional[int] (None and 0 are falsy)
Truthy(d) == d # NoInt /\ d # Some(0)
\* truthiness of an Optional[str]
TruthyStr(s) == s # None /\ s # ""

\* the five statuses of the lifecycle, and the terminal ones
StatusEnum == {"initiated", "connecting", "connected", "completed", "failed"}
Terminal == {"completed", "failed"}
\* statuses a caller of update_call_status or of the update route can send:
\* both take any string (schemas/call.py 18)
StatusInputs == StatusEnum \cup {"ringing"}

\* room names f"call_{uuid.uuid4().hex}", two sample values of the hex part
Uuids == {"call_1f", "call_2e"}
\* destination numbers
PhoneNumbers == {"+15551230000", "+15551230001"}
\* the agents table at the start: agent 1 is active, agent 2 is not
AgentRows ==
    <<[name |-> "agent one", is_active |-> TRUE],
      [name |-> "agent two", is_active |-> FALSE]>>
\* names a request can give an agent
AgentNames == {"agent one", "agent three"}
\* agent ids a request can name (one more than can exist)
AgentIdInputs == 1..(MaxAgents + 1)
\* a table without rows
NoRows == [id \in {} |-> None]
\* call ids a request can name (one more than can exist)
CallIdInputs == 1..(MaxCalls + 1)

VARIABLES
    agents,     \* agents table: sequence of rows, index = id
    phones,     \* phone_numbers table: id -> row
    calls,      \* calls table: sequence of rows, index = id
    worker,     \* background worker task of each call: index = call id
    ended,      \* call ids for which end_call has returned success
    last,       \* the last operation and what it returned
    nsteps,     \* number of operations performed
    ep,         \* one execution of the worker entrypoint, step by step
    ctl,        \* in-call control actions in flight: index = invocation
    log,        \* what that worker asked of its collaborators, in order
    tool        \* one tool dispatch: the request and what it returned

\* the tables and tasks of the coordinator, the session worker, the engine
cvars == <<agents, phones, calls, worker, ended, last, nsteps>>
svars == <<ep, ctl, log>>
tvars == <<tool>>
vars == <<agents, phones, calls, worker, ended, last, nsteps, ep, ctl, log,
          tool>>

\* no worker entrypoint is being followed, no tool is dispatched
SessionIdle == ep = [pc |-> "off"] /\ ctl = <<>> /\ log = <<>>
ToolIdle == tool = [op |-> "none"]

\* ------------------------------------------------------------------------
\* Tables
\* ------------------------------------------------------------------------
\* db.query(Agent).filter(Agent.id == agent_id, Agent.is_active == True).first()
ActiveAgent_IgnoresActive(agent_id) == agent_id \in DOMAIN agents
ActiveAgent(agent_id) ==
    agent_id \in DOMAIN agents /\ agents[agent_id].is_active

\* db.query(Agent).filter(Agent.id == agent_id).first()
AgentExists(agent_id) == agent_id \in DOMAIN agents

\* ids of the phone_numbers rows with this number
PhoneIdsOf(number) == {i \in DOMAIN phones : phones[i].phone_number = number}

Min(S) == CHOOSE x \in S : \A y \in S : x <= y
Max(S) == CHOOSE x \in S : \A y \in S : x >= y

\* the id an insert gives a row whose id is not set: sqlite takes the
\* largest id of the table plus one (INTEGER PRIMARY KEY, no AUTOINCREMENT)
NewId(table) == IF DOMAIN table = {} THEN 1 ELSE Max(DOMAIN table) + 1

\* db.add(row); db.commit()
Inserted(table, row) ==
    [id \in DOMAIN table \cup {NewId(table)} |->
        IF id \in DOMAIN table THEN table[id] ELSE row]

\* db.delete(row); db.commit()
Deleted(table, gone) == [id \in DOMAIN table \ {gone} |-> table[id]]

\* PhoneNumber(phone_number=..., agent_id=...); is_active defaults to True;
\* agent_id 0 stands for NULL
NewPhone(number, agent_id) ==
    [phone_number |-> number, agent_id |-> agent_id, is_active |-> TRUE]

\* db.query(PhoneNumber).filter(PhoneNumber.phone_number == n).first();
\* 0 stands for no row
PhoneLookup_NeverFinds(number) == 0
PhoneLookup(number) ==
    IF PhoneIdsOf(number) = {} THEN 0 ELSE Min(PhoneIdsOf(number))

\* unique=True on phone_numbers.phone_number: the insert is refused
PhoneNumberTaken(number) == PhoneIdsOf(number) # {}

\* ids of the calls rows with this room name
CallIdsOfRoom(room) == {i \in DOMAIN calls : calls[i].room_name = room}

\* unique=True on calls.room_name: the insert is refused
RoomNameTaken_NoConstraint(room) == FALSE
RoomNameTaken(room) == CallIdsOfRoom(room) # {}

\* db.query(Call).filter(Call.room_name == room_name).first(); 0 for no row
CallLookupByRoom_FirstRow(room) ==
    IF CallIdsOfRoom(room) = {}
    THEN (IF Len(calls) > 0 THEN 1 ELSE 0)
    ELSE Min(CallIdsOfRoom(room))
CallLookupByRoom(room) ==
    IF CallIdsOfRoom(room) = {} THEN 0 ELSE Min(CallIdsOfRoom(room))

\* db.query(Call).filter(Call.id == call_id).first(); 0 for no row
CallLookupById(call_id) == IF call_id \in DOMAIN calls THEN call_id ELSE 0

\* status given to a new call record
InitialStatus == "initiated"

\* Call(room_name=..., agent_id=..., phone_number_id=..., caller_number=...,
\*      status="initiated", metadata=...): the keyword metadata is not a
\* column (the column is call_metadata), so call_metadata stays NULL
NewCall(room, agent_id, phone_id, caller) ==
    [room_name |-> room, agent_id |-> agent_id, phone_number_id |-> phone_id,
     caller_number |-> caller, status |-> InitialStatus, duration |-> NoInt,
     recording_url |-> None, transcript |-> None, call_metadata |-> None]

\* state of the task asyncio.create_task returns, before its first step
TaskCreated_Awaited == "returned"
TaskCreated == "scheduled"

\* dial_info handed to the worker, and the task's position
NewWorker(room, agent_id, number, call_id) ==
    [pc |-> TaskCreated, room_name |-> room,
     dial_info |-> [phone_number |-> number, call_id |-> call_id,
                    agent_id |-> agent_id]]

Init ==
    /\ agents = AgentRows
    /\ phones = NoRows
    /\ calls = <<>>
    /\ worker = <<>>
    /\ ended = {}
    /\ last = [op |-> "none"]
    /\ nsteps = 0
    /\ SessionIdle
    /\ ToolIdle

Step ==
    /\ nsteps < MaxSteps
    /\ nsteps' = nsteps + 1
    /\ UNCHANGED <<svars, tvars>>

\* ------------------------------------------------------------------------
\* CallManager.initiate_call
\* ------------------------------------------------------------------------
InitiateRet(ok, err, call_id, room) ==
    IF ok
    THEN [success |-> TRUE, call_id |-> call_id, room_name |-> room,
          status |-> "initiated"]
    ELSE [success |-> FALSE, error |-> err]

InitiateLast(agent_id, number, ret) ==
    [op |-> "initiate_call", agent_id |-> agent_id, phone_number |-> number,
     ret |-> ret]

initiate_call(agent_id, number, caller, u) ==
    /\ Step
    /\ UNCHANGED <<agents, ended>>
    /\ IF ~ActiveAgent(agent_id)
       THEN \* raise ValueError, caught at line 81
            /\ last' = InitiateLast(agent_id, number,
                           InitiateRet(FALSE, "agent_not_found", 0, None))
            /\ UNCHANGED <<phones, calls, worker>>
       ELSE LET found == PhoneLookup(number) IN
            IF found = 0 /\ PhoneNumberTaken(number)
            THEN \* the first commit raises IntegrityError, caught at line 81
                 /\ last' = InitiateLast(agent_id, number,
                                InitiateRet(FALSE, "integrity_phone_number", 0, None))
                 /\ UNCHANGED <<phones, calls, worker>>
            ELSE LET phones1 == IF found = 0
                                THEN Inserted(phones, NewPhone(number, agent_id))
                                ELSE phones
                     phone_id == IF found = 0 THEN NewId(phones) ELSE found
                     call_id == Len(calls) + 1
                 IN /\ phones' = phones1
                    /\ IF RoomNameTaken(u)
                       THEN \* the second commit raises IntegrityError
                            /\ last' = InitiateLast(agent_id, number,
                                           InitiateRet(FALSE, "integrity_room_name", 0, None))
                            /\ UNCHANGED <<calls, worker>>
                       ELSE /\ Len(calls) < MaxCalls
                            /\ calls' = Append(calls,
                                   NewCall(u, agent_id, phone_id, caller))
                            \* _start_livekit_call: asyncio.create_task
                            /\ worker' = Append(worker,
                                   NewWorker(u, agent_id, number, call_id))
                            /\ last' = InitiateLast(agent_id, number,
                                           InitiateRet(TRUE, None, call_id, u))

\* ------------------------------------------------------------------------
\* CallManager.end_call
\* ------------------------------------------------------------------------
\* the status end_call writes
EndStatus == "completed"

\* the fields end_call assigns
EndedCall_ClearsDuration(row) == [row EXCEPT !.status = EndStatus, !.duration = NoInt]
EndedCall(row) == [row EXCEPT !.status = EndStatus]

\* last.was is the status of the row end_call read at line 154
end_call(call_id) ==
    /\ Step
    /\ UNCHANGED <<agents, phones, worker>>
    /\ LET id == CallLookupById(call_id) IN
       IF id = 0
       THEN \* raise ValueError, caught at line 167
            /\ last' = [op |-> "end_call", call_id |-> call_id, was |-> None,
                        ret |-> [success |-> FALSE, error |-> "call_not_found"]]
            /\ UNCHANGED <<calls, ended>>
       ELSE /\ calls' = [calls EXCEPT ![id] = EndedCall(calls[id])]
            /\ ended' = ended \cup {id}
            /\ last' = [op |-> "end_call", call_id |-> call_id,
                        was |-> calls[id].status,
                        ret |-> [success |-> TRUE,
                                 message |-> "Call ended successfully"]]

\* ------------------------------------------------------------------------
\* CallManager.update_call_status
\* ------------------------------------------------------------------------
StatusUpdated(row, status, duration, recording_url) ==
    [row EXCEPT !.status = status,
                !.duration = IF Truthy(duration) THEN duration ELSE @,
                !.recording_url = IF TruthyStr(recording_url)
                                  THEN recording_url ELSE @]

update_call_status(room, status, duration, recording_url) ==
    /\ Step
    /\ UNCHANGED <<agents, phones, worker, ended>>
    /\ last' = [op |-> "update_call_status", room_name |-> room, ret |-> None]
    /\ LET id == CallLookupByRoom(room) IN
       IF id = 0
       THEN UNCHANGED calls
       ELSE calls' = [calls EXCEPT
                         ![id] = StatusUpdated(calls[id], status, duration,
                                               recording_url)]

\* ------------------------------------------------------------------------
\* PUT /calls/{call_id} (routes/calls.py update_call)
\* ------------------------------------------------------------------------
UpdateFields == {"status", "duration", "recording_url", "transcript", "metadata"}

\* the sets of keys a request body carries (dict(exclude_unset=True))
UpdateBodies ==
    {{}, {"status"}, {"metadata"}, {"duration", "recording_url", "transcript"}}

\* CallUpdate bodies; a key that is not carried has a fixed value
CallUpdates ==
    { p \in [fields : UpdateBodies, status : StatusInputs,
             duration : {Some(7)}, recording_url : {"rec"},
             transcript : {"text"}, metadata : {"meta"}] :
        "status" \notin p.fields => p.status = "initiated" }

\* for field, value in update_data.items(): setattr(call, field, value);
\* metadata is not a column of calls, setting it changes no column
RowUpdated(row, p) ==
    [row EXCEPT
       !.status = IF "status" \in p.fields THEN p.status ELSE @,
       !.duration = IF "duration" \in p.fields THEN p.duration ELSE @,
       !.recording_url = IF "recording_url" \in p.fields
                         THEN p.recording_url ELSE @,
       !.transcript = IF "transcript" \in p.fields THEN p.transcript ELSE @]

update_call(call_id, p) ==
    /\ Step
    /\ UNCHANGED <<agents, phones, worker, ended>>
    /\ LET id == CallLookupById(call_id) IN
       IF id = 0
       THEN /\ last' = [op |-> "update_call", call_id |-> call_id,
                        ret |-> "not_found"]
            /\ UNCHANGED calls
       ELSE \* the row is committed before the response is built
            /\ calls' = [calls EXCEPT ![id] = RowUpdated(calls[id], p)]
            /\ last' = [op |-> "update_call", call_id |-> call_id,
                        ret |-> "committed"]

\* ------------------------------------------------------------------------
\* The agent routes (routes/agents.py)
\* ------------------------------------------------------------------------
\* ids of the agents rows with this name
AgentIdsNamed(name) == {i \in DOMAIN agents : agents[i].name = name}

\* Agent(**agent_data.dict()): AgentCreate has no is_active, the column
\* defaults to True
NewAgent(name) == [name |-> name, is_active |-> TRUE]

\* POST /agents.  The HTTPException(400) of the name check is raised inside
\* the try block and except Exception catches it: the answer is 500.
create_agent(name) ==
    /\ Step
    /\ UNCHANGED <<phones, calls, worker, ended>>
    /\ IF AgentIdsNamed(name) # {}
       THEN /\ last' = [op |-> "create_agent", ret |-> 500]
            /\ UNCHANGED agents
       ELSE /\ Len(agents) < MaxAgents
            /\ agents' = Append(agents, NewAgent(name))
            /\ last' = [op |-> "create_agent", ret |-> 201]

\* AgentUpdate bodies: fields are the keys the body carries
\* (dict(exclude_unset=True)); a name of None in a body that carries name is
\* an explicit null
AgentUpdates ==
    {[fields |-> {"is_active"}, name |-> None, is_active |-> b] :
        b \in BOOLEAN}
    \cup {[fields |-> {"name"}, name |-> n, is_active |-> TRUE] :
        n \in AgentNames \cup {None}}

\* for field, value in update_data.items(): setattr(agent, field, value)
AgentUpdated(row, p) ==
    [row EXCEPT !.name = IF "name" \in p.fields THEN p.name ELSE @,
                !.is_active = IF "is_active" \in p.fields
                              THEN p.is_active ELSE @]

\* PUT /agents/{agent_id}
update_agent(agent_id, p) ==
    /\ Step
    /\ UNCHANGED <<phones, calls, worker, ended>>
    /\ IF ~AgentExists(agent_id)
       THEN /\ last' = [op |-> "update_agent", ret |-> 404]
            /\ UNCHANGED agents
       ELSE IF /\ TruthyStr(p.name)
               /\ p.name # agents[agent_id].name
               /\ AgentIdsNamed(p.name) \ {agent_id} # {}
       THEN /\ last' = [op |-> "update_agent", ret |-> 400]
            /\ UNCHANGED agents
       ELSE IF "name" \in p.fields /\ p.name = None
       THEN \* agents.name is NOT NULL: commit raises, rollback, HTTP 500
            /\ last' = [op |-> "update_agent", ret |-> 500]
            /\ UNCHANGED agents
       ELSE /\ agents' = [agents EXCEPT
                             ![agent_id] = AgentUpdated(agents[agent_id], p)]
            /\ last' = [op |-> "update_agent", ret |-> 200]

\* DELETE /agents/{agent_id}.  The query for active calls is built with
\* Agent.calls.any(status__in=[...]); any() reads each keyword as an
\* attribute of Call, Call has no attribute status__in, so building the
\* query raises AttributeError for every agent that exists; except Exception
\* rolls back and answers 500, and no row is deleted.
delete_agent(agent_id) ==
    /\ Step
    /\ UNCHANGED <<agents, phones, calls, worker, ended>>
    /\ last' = [op |-> "delete_agent",
                ret |-> IF AgentExists(agent_id) THEN 500 ELSE 404]

\* ------------------------------------------------------------------------
\* POST /phone-numbers (routes/phone_numbers.py create_phone_number);
\* agent_id 0 stands for no agent
\* ------------------------------------------------------------------------
create_phone_number(number, agent_id) ==
    /\ Step
    /\ UNCHANGED <<agents, calls, worker, ended>>
    /\ IF PhoneLookup(number) # 0
       THEN /\ last' = [op |-> "create_phone_number", ret |-> 400]
            /\ UNCHANGED phones
       ELSE IF agent_id # 0 /\ ~AgentExists(agent_id)
       THEN /\ last' = [op |-> "create_phone_number", ret |-> 404]
            /\ UNCHANGED phones
       ELSE IF PhoneNumberTaken(number)
       THEN \* commit raises IntegrityError: rollback, HTTP 500
            /\ last' = [op |-> "create_phone_number", ret |-> 500]
            /\ UNCHANGED phones
       ELSE /\ phones' = Inserted(phones, NewPhone(number, agent_id))
            /\ last' = [op |-> "create_phone_number", ret |-> 201]

\* phone ids a request can name
PhoneIdInputs == {1, 2, 3}

\* PhoneNumberUpdate bodies: fields are the keys the body carries; an
\* agent_id of 0 and a phone_number of None are explicit nulls
PhoneUpdates ==
    {[fields |-> {"phone_number"}, phone_number |-> n, agent_id |-> 0,
      is_active |-> TRUE] : n \in PhoneNumbers \cup {None}}
    \cup {[fields |-> {"agent_id"}, phone_number |-> None, agent_id |-> a,
           is_active |-> TRUE] : a \in {0, 2, MaxAgents + 1}}
    \cup {[fields |-> {"is_active"}, phone_number |-> None, agent_id |-> 0,
           is_active |-> FALSE]}

\* for field, value in update_data.items(): setattr(phone, field, value)
PhoneUpdated(row, p) ==
    [row EXCEPT
       !.phone_number = IF "phone_number" \in p.fields
                        THEN p.phone_number ELSE @,
       !.agent_id = IF "agent_id" \in p.fields THEN p.agent_id ELSE @,
       !.is_active = IF "is_active" \in p.fields THEN p.is_active ELSE @]

\* PUT /phone-numbers/{phone_id}; the commit is in no try block: a number
\* another row has, or a null number, raises IntegrityError out of the
\* route (HTTP 500) and the row stays as it was
update_phone_number(phone_id, p) ==
    /\ Step
    /\ UNCHANGED <<agents, calls, worker, ended>>
    /\ IF phone_id \notin DOMAIN phones
       THEN /\ last' = [op |-> "update_phone_number", ret |-> 404]
            /\ UNCHANGED phones
       ELSE IF p.agent_id # 0 /\ ~AgentExists(p.agent_id)
       THEN /\ last' = [op |-> "update_phone_number", ret |-> 404]
            /\ UNCHANGED phones
       ELSE IF /\ "phone_number" \in p.fields
               /\ \/ p.phone_number = None
                  \/ PhoneIdsOf(p.phone_number) \ {phone_id} # {}
       THEN /\ last' = [op |-> "update_phone_number", ret |-> 500]
            /\ UNCHANGED phones
       ELSE /\ phones' = [phones EXCEPT
                             ![phone_id] = PhoneUpdated(phones[phone_id], p)]
            /\ last' = [op |-> "update_phone_number", ret |-> 200]

\* the calls of a deleted phone number: the relationship PhoneNumber.calls
\* has no delete cascade, the unit of work sets their phone_number_id to
\* NULL (0)
Orphaned(row, phone_id) ==
    IF row.phone_number_id = phone_id
    THEN [row EXCEPT !.phone_number_id = 0] ELSE row

\* DELETE /phone-numbers/{phone_id}
delete_phone_number(phone_id) ==
    /\ Step
    /\ UNCHANGED <<agents, worker, ended>>
    /\ IF phone_id \notin DOMAIN phones
       THEN /\ last' = [op |-> "delete_phone_number", ret |-> 404]
            /\ UNCHANGED <<phones, calls>>
       ELSE /\ phones' = Deleted(phones, phone_id)
            /\ calls' = [c \in DOMAIN calls |-> Orphaned(calls[c], phone_id)]
            /\ last' = [op |-> "delete_phone_number", ret |-> 204]

\* ------------------------------------------------------------------------
\* One run of the task CallManager._run_livekit_worker
\* ------------------------------------------------------------------------
\* what can raise before the dial: the import of app.workers.call_worker
\* (it raises when SIP_OUTBOUND_TRUNK_ID is not set), opening the database
\* session, building the agent session
WorkerFaults == {"none", "import", "session"}

\* the status the except branch of _run_livekit_worker writes
WorkerFailed(row) == [row EXCEPT !.status = "failed"]

\* the error a run of the worker meets first: the import of call_worker
\* (line 119), the agent lookup of entrypoint (call_worker.py 185-187),
\* the construction of the agent session (229-238), and at the latest the
\* dial, ctx.api.sip on the api None of MockJobContext (254)
WorkerError_SkipsAgentCheck(fault, agent_id) ==
    IF fault = "import" THEN "import"
    ELSE IF fault = "session" THEN "session"
    ELSE "dial"
WorkerError(fault, agent_id) ==
    IF fault = "import" THEN "import"
    ELSE IF ~ActiveAgent(agent_id) THEN "agent_not_found"
    ELSE IF fault = "session" THEN "session"
    ELSE "dial"

\* The context handed to entrypoint is MockJobContext, whose connect and
\* wait_for_participant do not suspend and whose api is None.  The run is
\* one step: either something raises before the dial and the except branch
\* of _run_livekit_worker marks the call failed, or the dial raises
\* AttributeError on ctx.api, entrypoint catches it, calls ctx.shutdown()
\* and returns normally.
run_livekit_worker(c, fault) ==
    /\ Step
    /\ c \in DOMAIN worker
    /\ worker[c].pc = "scheduled"
    /\ UNCHANGED <<agents, phones, ended>>
    /\ LET error == WorkerError(fault, worker[c].dial_info.agent_id)
           raised == error # "dial"
           id == CallLookupByRoom(worker[c].room_name)
       IN /\ worker' = [worker EXCEPT ![c].pc = IF raised THEN "failed"
                                                 ELSE "returned"]
          /\ calls' = IF raised /\ id # 0
                      THEN [calls EXCEPT ![id] = WorkerFailed(calls[id])]
                      ELSE calls
          /\ last' = [op |-> "run_livekit_worker", call_id |-> c,
                      error |-> error, raised |-> raised]

\* ------------------------------------------------------------------------
\* Specification
\* ------------------------------------------------------------------------
Next ==
    \/ \E a \in AgentIdInputs, n \in PhoneNumbers, u \in Uuids :
          initiate_call(a, n, None, u)
    \/ \E c \in CallIdInputs : end_call(c)
    \/ \E r \in Uuids, s \in StatusInputs,
          d \in {<<NoInt, None>>, <<Some(0), None>>, <<Some(7), "rec">>} :
          update_call_status(r, s, d[1], d[2])
    \/ \E c \in CallIdInputs, p \in CallUpdates : update_call(c, p)
    \/ \E n \in AgentNames : create_agent(n)
    \/ \E a \in AgentIdInputs, p \in AgentUpdates : update_agent(a, p)
    \/ \E a \in AgentIdInputs : delete_agent(a)
    \/ \E n \in PhoneNumbers, a \in {0, MaxAgents + 1} :
          create_phone_number(n, a)
    \/ \E i \in PhoneIdInputs, p \in PhoneUpdates : update_phone_number(i, p)
    \/ \E i \in PhoneIdInputs : delete_phone_number(i)
    \/ \E c \in 1..MaxCalls, f \in WorkerFaults : run_livekit_worker(c, f)

Spec == Init /\ [][Next]_vars

\* ------------------------------------------------------------------------
\* The session worker: entrypoint of app/workers/call_worker.py, run by
\* cli.run_app with the job context of the session runtime, followed step
\* by step (one action per stretch between two suspensions), and the
\* control actions of DynamicVoiceAgent the AI session calls at runtime.
\* ------------------------------------------------------------------------
MaxActs == 2
MaxTurns == 1

\* transfer_to of the dial info: absent, empty, or a number
TransferTargets == {None, "", "+15550009999"}

\* elements of a sequence
Range(q) == {q[i] : i \in DOMAIN q}

\* the coroutines of one worker: the entrypoint (0) and the control actions
Coroutines == 0..MaxActs

\* the number the worker dials
Callee == "+15551230000"

\* one entry of a coroutine's log: the request ev it made
Entry(ev, what) == [ev |-> ev, what |-> what]

\* coroutine by makes a request
Logged(by, entries) == [log EXCEPT ![by] = @ \o entries]

\* the reply that coroutine by requests with session.generate_reply(...)
ReplyOf(by, what) == <<by, what, 0>>

\* the n-th reply the session gives by itself in answer to the callee
TurnReply(n) == <<0, "turn", n>>
NoReply == <<>>

SessionInit ==
    /\ agents = AgentRows
    /\ phones = NoRows
    /\ calls = <<>>
    /\ worker = <<>>
    /\ ended = {}
    /\ last = [op |-> "none"]
    /\ nsteps = 0
    /\ ToolIdle
    /\ \E a \in AgentIdInputs, t \in TransferTargets :
          ep = [pc |-> "connect", sess |-> "none", participant |-> None,
                room |-> "open", speech |-> <<>>, turns |-> 0,
                dial_info |-> [phone_number |-> Callee, transfer_to |-> t,
                               agent_id |-> a]]
    /\ ctl = <<>>
    /\ log = [c \in Coroutines |-> <<>>]

\* what a step of the session worker leaves alone
SessionStep == UNCHANGED <<cvars, tvars>>

\* the reply with this id has been played out
Played(id) == id \notin Range(ep.speech)

\* ---- entrypoint ----
\* line 172: await ctx.connect()
entrypoint_connect(ok) ==
    /\ SessionStep
    /\ ep.pc = "connect"
    /\ ep' = [ep EXCEPT !.pc = IF ok THEN "config" ELSE "raised"]
    /\ UNCHANGED <<ctl, log>>

\* lines 174-220: the dial info and the agent row; an agent that is absent
\* or inactive raises ValueError out of entrypoint
entrypoint_config ==
    /\ SessionStep
    /\ ep.pc = "config"
    /\ ep' = [ep EXCEPT !.pc = IF ActiveAgent(ep.dial_info.agent_id)
                                THEN "session" ELSE "raised"]
    /\ UNCHANGED <<ctl, log>>

\* the step that follows the construction of the agent session
AfterSessionBuilt_DialFirst == "dial"
AfterSessionBuilt == "start"

\* lines 222-238: DynamicVoiceAgent(...), AgentSession(...); a failure of
\* either constructor raises out of entrypoint
entrypoint_session(ok) ==
    /\ SessionStep
    /\ ep.pc = "session"
    /\ ep' = [ep EXCEPT !.pc = IF ok THEN AfterSessionBuilt ELSE "raised"]
    /\ UNCHANGED <<ctl, log>>

\* lines 240-250: asyncio.create_task(session.start(...))
entrypoint_start_session ==
    /\ SessionStep
    /\ ep.pc = "start"
    /\ ep' = [ep EXCEPT !.pc = "dial", !.sess = "created"]
    /\ log' = Logged(0, <<Entry("session_start", None)>>)
    /\ UNCHANGED ctl

\* lines 253-263: the dial request is sent and awaited
entrypoint_dial ==
    /\ SessionStep
    /\ ep.pc = "dial"
    /\ ep' = [ep EXCEPT !.pc = "dialing"]
    /\ log' = Logged(0, <<Entry("dial", ep.dial_info.phone_number)>>)
    /\ UNCHANGED ctl

\* the entrypoint is suspended: other tasks of the loop can run
Suspended == ep.pc \in {"dialing", "await_session", "wait_participant",
                        "greeting", "done", "shutdown", "raised"}

\* the task session_started runs: session.start(...) returns or raises
session_start(ok) ==
    /\ SessionStep
    /\ Suspended
    /\ ep.sess = "created"
    /\ ep' = [ep EXCEPT !.sess = IF ok THEN "started" ELSE "failed"]
    /\ UNCHANGED <<ctl, log>>

\* lines 277-286: both except branches log and call ctx.shutdown()
Shutdown(e) == [e EXCEPT !.pc = "shutdown"]

\* the dial returns (answered) or raises (TwirpError, any other error)
DialOutcomes == {"answered", "twirp", "error"}

entrypoint_dial_done(outcome) ==
    /\ SessionStep
    /\ ep.pc = "dialing"
    /\ IF outcome = "answered"
       THEN /\ ep' = [ep EXCEPT !.pc = "await_session"]
            /\ UNCHANGED log
       ELSE /\ ep' = Shutdown(ep)
            /\ log' = Logged(0, <<Entry("shutdown", outcome)>>)
    /\ UNCHANGED ctl

\* line 266: await session_started
entrypoint_session_joined ==
    /\ SessionStep
    /\ ep.pc = "await_session"
    /\ ep.sess \in {"started", "failed"}
    /\ IF ep.sess = "started"
       THEN /\ ep' = [ep EXCEPT !.pc = "wait_participant"]
            /\ UNCHANGED log
       ELSE /\ ep' = Shutdown(ep)
            /\ log' = Logged(0, <<Entry("shutdown", "session")>>)
    /\ UNCHANGED ctl

\* lines 267-275: the participant has joined; it is bound into the agent
\* and the greeting is requested
entrypoint_participant(ok) ==
    /\ SessionStep
    /\ ep.pc = "wait_participant"
    /\ IF ok
       THEN /\ ep' = [ep EXCEPT !.pc = "greeting",
                                !.participant = ep.dial_info.phone_number,
                                !.speech = Append(@, ReplyOf(0, "greeting"))]
            /\ log' = Logged(0, <<Entry("set_participant",
                                         ep.dial_info.phone_number),
                                   Entry("reply", "greeting")>>)
       ELSE /\ ep' = Shutdown(ep)
            /\ log' = Logged(0, <<Entry("shutdown", "error")>>)
    /\ UNCHANGED ctl

\* line 273 returns: the greeting has been played
entrypoint_greeted ==
    /\ SessionStep
    /\ ep.pc = "greeting"
    /\ Played(ReplyOf(0, "greeting"))
    /\ ep' = [ep EXCEPT !.pc = "done"]
    /\ UNCHANGED <<ctl, log>>

\* ---- the AI session ----
\* the session answers the callee by itself: a reply starts
session_reply ==
    /\ SessionStep
    /\ ep.sess = "started"
    /\ ep.room = "open"
    /\ Suspended
    /\ ep.turns < MaxTurns
    /\ ep' = [ep EXCEPT !.speech = Append(@, TurnReply(ep.turns + 1)),
                        !.turns = @ + 1]
    /\ UNCHANGED log
    /\ UNCHANGED ctl

\* the reply being spoken has been played out
speech_done ==
    /\ SessionStep
    /\ ep.speech # <<>>
    /\ ep' = [ep EXCEPT !.speech = Tail(@)]
    /\ UNCHANGED <<ctl, log>>

\* the session can call a tool of the agent
CanInvoke ==
    /\ ep.sess = "started"
    /\ ep.room = "open"
    /\ Suspended
    /\ Len(ctl) < MaxActs

NewAct(kind, pc, wait, ret) ==
    [kind |-> kind, pc |-> pc, wait |-> wait, ret |-> ret]

\* ---- control actions of DynamicVoiceAgent ----
\* control action i requests a reply and awaits its playout
Reply(i, what) ==
    /\ ep' = [ep EXCEPT !.speech = Append(@, ReplyOf(i, what))]
    /\ log' = Logged(i, <<Entry("reply", what)>>)

\* line 97: if not transfer_to
CanTransfer_EmptyIsTarget(transfer_to) == transfer_to # None
CanTransfer(transfer_to) == TruthyStr(transfer_to)

\* lines 95-105: no target declines at once; otherwise the notice is
\* requested and awaited
transfer_call ==
    /\ SessionStep
    /\ CanInvoke
    /\ LET i == Len(ctl) + 1
       IN IF ~CanTransfer(ep.dial_info.transfer_to)
          THEN /\ ctl' = Append(ctl, NewAct("transfer_call", "returned",
                                            NoReply, "Cannot transfer call"))
               /\ UNCHANGED <<ep, log>>
          ELSE /\ ctl' = Append(ctl, NewAct("transfer_call", "notice",
                                            ReplyOf(i, "notice"), None))
               /\ Reply(i, "notice")

\* lines 118-122: the apology is requested and awaited
Apologise(i) ==
    /\ ctl' = [ctl EXCEPT ![i].pc = "apology",
                          ![i].wait = ReplyOf(i, "apology")]
    /\ Reply(i, "apology")

\* lines 107-115: the notice has been played; the transfer request is
\* built (self.participant.identity raises when no participant is bound)
\* and sent to the provider
transfer_call_request(i) ==
    /\ SessionStep
    /\ i \in DOMAIN ctl
    /\ ctl[i].kind = "transfer_call" /\ ctl[i].pc = "notice"
    /\ Played(ctl[i].wait)
    /\ IF ep.participant = None
       THEN Apologise(i)
       ELSE /\ ctl' = [ctl EXCEPT ![i].pc = "transferring"]
            /\ log' = Logged(i, <<Entry("transfer",
                                         ep.dial_info.transfer_to)>>)
            /\ UNCHANGED ep

\* lines 116-118: the provider answers the transfer request
transfer_call_result(i, ok) ==
    /\ SessionStep
    /\ i \in DOMAIN ctl
    /\ ctl[i].kind = "transfer_call" /\ ctl[i].pc = "transferring"
    /\ IF ok
       THEN /\ ctl' = [ctl EXCEPT ![i].pc = "returned",
                                  ![i].ret = "Call transferred successfully"]
            /\ UNCHANGED <<ep, log>>
       ELSE Apologise(i)

\* lines 81-87: hangup() asks the provider to delete the room
Hangup(i) ==
    /\ ctl' = [ctl EXCEPT ![i].pc = "hanging_up"]
    /\ log' = Logged(i, <<Entry("hangup", None)>>)
    /\ UNCHANGED ep

\* the step of transfer_call that follows the apology
AfterApology_Returns(i) ==
    /\ ctl' = [ctl EXCEPT ![i].pc = "returned", ![i].ret = "Transfer failed"]
    /\ UNCHANGED <<ep, log>>
AfterApology(i) == Hangup(i)

\* lines 120-123: the apology has been played
transfer_call_apologised(i) ==
    /\ SessionStep
    /\ i \in DOMAIN ctl
    /\ ctl[i].kind = "transfer_call" /\ ctl[i].pc = "apology"
    /\ Played(ctl[i].wait)
    /\ AfterApology(i)

\* what each control action returns after hangup()
HangupReturn(kind) ==
    IF kind = "transfer_call" THEN "Transfer failed"
    ELSE IF kind = "end_call" THEN "Call ended"
    ELSE "Call ended due to answering machine"

\* lines 85-91: delete_room returns, or raises and is only logged
hangup(i, ok) ==
    /\ SessionStep
    /\ i \in DOMAIN ctl
    /\ ctl[i].pc = "hanging_up"
    /\ ctl' = [ctl EXCEPT ![i].pc = "returned",
                          ![i].ret = HangupReturn(ctl[i].kind)]
    /\ ep' = [ep EXCEPT !.room = IF ok THEN "deleted" ELSE @]
    /\ UNCHANGED log

\* lines 128-136 of DynamicVoiceAgent.end_call: the log line reads
\* self.participant.identity; then the reply being spoken, if any, is
\* awaited
agent_end_call ==
    /\ SessionStep
    /\ CanInvoke
    /\ LET i == Len(ctl) + 1
       IN IF ep.participant = None
          THEN /\ ctl' = Append(ctl, NewAct("end_call", "raised", NoReply,
                                            None))
               /\ UNCHANGED <<ep, log>>
          ELSE IF ep.speech # <<>>
          THEN /\ ctl' = Append(ctl, NewAct("end_call", "draining",
                                            Head(ep.speech), None))
               /\ UNCHANGED <<ep, log>>
          ELSE /\ ctl' = Append(ctl, NewAct("end_call", "hanging_up",
                                            NoReply, None))
               /\ log' = Logged(i, <<Entry("hangup", None)>>)
               /\ UNCHANGED ep

\* line 134 returns: current_speech.wait_for_playout()
agent_end_call_drained(i) ==
    /\ SessionStep
    /\ i \in DOMAIN ctl
    /\ ctl[i].kind = "end_call" /\ ctl[i].pc = "draining"
    /\ Played(ctl[i].wait)
    /\ Hangup(i)

\* lines 141-144: the log line reads self.participant.identity, then
\* hangup()
detected_answering_machine ==
    /\ SessionStep
    /\ CanInvoke
    /\ LET i == Len(ctl) + 1
       IN IF ep.participant = None
          THEN /\ ctl' = Append(ctl, NewAct("detected_answering_machine",
                                            "raised", NoReply, None))
               /\ UNCHANGED <<ep, log>>
          ELSE /\ ctl' = Append(ctl, NewAct("detected_answering_machine",
                                            "hanging_up", NoReply, None))
               /\ log' = Logged(i, <<Entry("hangup", None)>>)
               /\ UNCHANGED ep

SessionNext ==
    \/ \E ok \in BOOLEAN : entrypoint_connect(ok)
    \/ entrypoint_config
    \/ \E ok \in BOOLEAN : entrypoint_session(ok)
    \/ entrypoint_start_session
    \/ entrypoint_dial
    \/ \E ok \in BOOLEAN : session_start(ok)
    \/ \E o \in DialOutcomes : entrypoint_dial_done(o)
    \/ entrypoint_session_joined
    \/ \E ok \in BOOLEAN : entrypoint_participant(ok)
    \/ entrypoint_greeted
    \/ session_reply
    \/ speech_done
    \/ transfer_call
    \/ \E i \in 1..MaxActs : transfer_call_request(i)
    \/ \E i \in 1..MaxActs, ok \in BOOLEAN : transfer_call_result(i, ok)
    \/ \E i \in 1..MaxActs : transfer_call_apologised(i)
    \/ \E i \in 1..MaxActs, ok \in BOOLEAN : hangup(i, ok)
    \/ agent_end_call
    \/ \E i \in 1..MaxActs : agent_end_call_drained(i)
    \/ detected_answering_machine

SessionSpec == SessionInit /\ [][SessionNext]_vars

\* ------------------------------------------------------------------------
\* Tool dispatch: ToolExecutor and FunctionRegistry of
\* app/core/tool_executor.py. A Python call either returns a value or
\* raises; both are values here.
\* ------------------------------------------------------------------------
Return(v) == [kind |-> "return", value |-> v]
Raise(exc, msg) == [kind |-> "raise", exc |-> exc, msg |-> msg]

\* a key that the dict does not hold; None is a key holding null
Absent == "<absent>"

\* dict.get(key, default)
Get(d, key, default) == IF d[key] = Absent THEN default ELSE d[key]

\* datetime.utcnow().isoformat()
Timestamp == "utcnow"

\* str.upper() on the method names used below
Upper(m) ==
    IF m = "get" THEN "GET" ELSE IF m = "post" THEN "POST"
    ELSE IF m = "put" THEN "PUT" ELSE m

\* what the HTTP client gives back for one request
StatusCodes == {200, 204, 301, 404, 500}
ContentTypes == {Absent, "text/plain", "application/json; charset=utf-8"}
Bodies == {"", "oops", "{\"ok\": true}"}
Responses ==
    [kind : {"response"}, status_code : StatusCodes,
     content_type : ContentTypes, text : Bodies]
TransportErrors ==
    {Raise("ReadTimeout", ""), Raise("ConnectError", "connection refused")}
Outcomes == Responses \cup TransportErrors

\* response.raise_for_status(): HTTPStatusError unless the status is 2xx
IsSuccess_Below400(status_code) == status_code < 400
IsSuccess(status_code) == status_code \in 200..299

\* response.headers.get("content-type", "").startswith("application/json")
IsJson(content_type) ==
    content_type \in {"application/json", "application/json; charset=utf-8"}

\* response.json()
Json(text) ==
    IF text = "{\"ok\": true}" THEN Return([ok |-> TRUE])
    ELSE Raise("JSONDecodeError", "Expecting value: line 1 column 1 (char 0)")

\* lines 68-83 and 155-170: the result built from a response
FromResponse(r) ==
    IF ~IsSuccess(r.status_code)
    THEN Return([success |-> FALSE,
                 error |-> "HTTP " \o ToString(r.status_code) \o ": "
                           \o r.text,
                 status_code |-> r.status_code,
                 timestamp |-> Timestamp])
    ELSE LET data == IF IsJson(r.content_type) THEN Json(r.text)
                     ELSE Return(r.text)
         IN IF data.kind = "raise" THEN data
            ELSE Return([success |-> TRUE, data |-> data.value,
                         status_code |-> r.status_code,
                         timestamp |-> Timestamp])

\* the keyword arguments of a call: the keys that are present
NoParameters ==
    [expression |-> Absent, amount |-> NoInt, currency |-> Absent]
Keys(parameters) ==
    {k \in {"expression", "currency"} : parameters[k] # Absent}
    \cup (IF parameters.amount # NoInt THEN {"amount"} ELSE {})

\* the one element of Some(n)
Value(d) == CHOOSE n \in d : TRUE

\* parameters or {}: the dict of the keys that are present
ParamDict(parameters) ==
    [k \in Keys(parameters) |->
        IF k = "amount" THEN Value(parameters.amount) ELSE parameters[k]]

\* a dict of the configuration that may be missing: configuration.get(key, {})
EmptyDict == [k \in {} |-> Absent]
NoDict == <<>>
GetDict(d) == IF d = NoDict THEN EmptyDict ELSE d[1]

\* {**a, **b}: the keys of both, b's value where both have the key
Merge(a, b) ==
    [k \in DOMAIN a \cup DOMAIN b |-> IF k \in DOMAIN b THEN b[k] ELSE a[k]]

\* the request sent with http_client.get / http_client.post
Sent(verb, url, data) == <<[verb |-> verb, url |-> url, data |-> data]>>

\* one call of a handler: what it gives back and what it did on the way
Done(result, http, invoked, steps) ==
    [result |-> result, http |-> http, invoked |-> invoked, steps |-> steps]

\* what stands for the answer while the request is sent and awaited
Pending == [kind |-> "pending"]

\* lines 50-83 and 139-170: request by method, then the response
Request(url, method, data, outcome, what) ==
    IF method = None
    THEN Done(Raise("AttributeError",
                    "'NoneType' object has no attribute 'upper'"),
              <<>>, <<>>, 0)
    ELSE IF Upper(method) \notin {"GET", "POST"}
    THEN Done(Raise("ValueError", what \o method), <<>>, <<>>, 0)
    ELSE Done(IF outcome.kind \in {"raise", "pending"} THEN outcome
              ELSE FromResponse(outcome),
              Sent(Upper(method), url, data), <<>>, 0)

\* lines 37-83
execute_api_tool(configuration, parameters, outcome) ==
    IF ~TruthyStr(Get(configuration, "endpoint", None))
    THEN Done(Raise("ValueError", "API tool missing endpoint configuration"),
              <<>>, <<>>, 0)
    ELSE Request(configuration.endpoint,
                 Get(configuration, "method", "GET"),
                 Merge(GetDict(configuration.default_params),
                       ParamDict(parameters)),
                 outcome,
                 "Unsupported HTTP method: ")

\* lines 123-170
execute_webhook_tool(configuration, parameters, outcome) ==
    IF ~TruthyStr(Get(configuration, "webhook_url", None))
    THEN Done(Raise("ValueError",
                    "Webhook tool missing webhook_url configuration"),
              <<>>, <<>>, 0)
    ELSE Request(configuration.webhook_url,
                 Get(configuration, "method", "POST"),
                 Merge([timestamp |-> Timestamp,
                        parameters |-> ParamDict(parameters)],
                       GetDict(configuration.default_payload)),
                 outcome,
                 "Unsupported HTTP method for webhook: ")

\* ---- FunctionRegistry and its default functions ----
\* the syntax trees ast.parse builds
Num(n) == [node |-> "Num", n |-> n]
BinOp(left, op, right) ==
    [node |-> "BinOp", left |-> left, op |-> op, right |-> right]
UnaryOp(op, operand) == [node |-> "UnaryOp", op |-> op, operand |-> operand]
Name(id) == [node |-> "Name", id |-> id]
Constant(value) == [node |-> "Constant", value |-> value]
CallNode(func, arg) == [node |-> "Call", func |-> func, arg |-> arg]

\* the expressions given to calculate
Expressions ==
    {"7", "2+3*4", "-(2**3)", "7^2", "8/2", "1/0", "2+", "2**3+x", "x+2**3",
     "2%3", "(1+2)%3", "abs(2)", "(2*3)+abs(1)", "+2", "True+1"}

\* ast.parse(expression, mode='eval').body
Parse(e) ==
    CASE e = "7" -> Return(Num(7))
      [] e = "2+3*4" ->
            Return(BinOp(Num(2), "Add", BinOp(Num(3), "Mult", Num(4))))
      [] e = "-(2**3)" -> Return(UnaryOp("USub", BinOp(Num(2), "Pow", Num(3))))
      [] e = "7^2" -> Return(BinOp(Num(7), "BitXor", Num(2)))
      [] e = "8/2" -> Return(BinOp(Num(8), "Div", Num(2)))
      [] e = "1/0" -> Return(BinOp(Num(1), "Div", Num(0)))
      [] e = "2**3+x" ->
            Return(BinOp(BinOp(Num(2), "Pow", Num(3)), "Add", Name("x")))
      [] e = "x+2**3" ->
            Return(BinOp(Name("x"), "Add", BinOp(Num(2), "Pow", Num(3))))
      [] e = "2%3" -> Return(BinOp(Num(2), "Mod", Num(3)))
      [] e = "(1+2)%3" ->
            Return(BinOp(BinOp(Num(1), "Add", Num(2)), "Mod", Num(3)))
      [] e = "abs(2)" -> Return(CallNode("abs", Num(2)))
      [] e = "(2*3)+abs(1)" ->
            Return(BinOp(BinOp(Num(2), "Mult", Num(3)), "Add",
                         CallNode("abs", Num(1))))
      [] e = "+2" -> Return(UnaryOp("UAdd", Num(2)))
      [] e = "True+1" -> Return(BinOp(Constant(TRUE), "Add", Num(1)))
      [] OTHER -> Raise("SyntaxError", "invalid syntax (<unknown>, line 1)")

\* lines 209-217
allowed_operators == {"Add", "Sub", "Mult", "Div", "Pow", "BitXor", "USub"}

\* operator.xor on naturals
RECURSIVE Xor(_, _)
Xor(a, b) ==
    IF a = 0 THEN b
    ELSE IF b = 0 THEN a
    ELSE 2 * Xor(a \div 2, b \div 2) + (((a % 2) + (b % 2)) % 2)

\* operator.truediv gives a float: the ratio is kept as it is
Float(a, b) == [float |-> <<a, b>>]

\* the functions of module operator behind allowed_operators
Apply(op, a, b) ==
    CASE op = "Add" -> Return(a + b)
      [] op = "Sub" -> Return(a - b)
      [] op = "Mult" -> Return(a * b)
      [] op = "Pow" -> Return(a ^ b)
      [] op = "BitXor" -> Return(Xor(a, b))
      [] op = "Div" -> IF b = 0
                       THEN Raise("ZeroDivisionError", "division by zero")
                       ELSE Return(Float(a, b))

\* the outcome of an evaluation and the number of operator calls made
Ev(result, steps) == [result |-> result, steps |-> steps]

\* lines 219-229: the operator is looked up first, then the operands are
\* evaluated from left to right, then the operator is called
RECURSIVE eval_expr(_)
eval_expr(expr) ==
    IF expr.node = "Num" THEN Ev(Return(expr.n), 0)
    ELSE IF expr.node = "BinOp"
    THEN IF expr.op \notin allowed_operators
         THEN Ev(Raise("KeyError", "<class 'ast." \o expr.op \o "'>"), 0)
         ELSE LET l == eval_expr(expr.left)
              IN IF l.result.kind = "raise" THEN l
                 ELSE LET r == eval_expr(expr.right)
                      IN IF r.result.kind = "raise"
                         THEN Ev(r.result, l.steps + r.steps)
                         ELSE Ev(Apply(expr.op, l.result.value,
                                       r.result.value),
                                 l.steps + r.steps + 1)
    ELSE IF expr.node = "UnaryOp"
    THEN IF expr.op \notin allowed_operators
         THEN Ev(Raise("KeyError", "<class 'ast." \o expr.op \o "'>"), 0)
         ELSE LET v == eval_expr(expr.operand)
              IN IF v.result.kind = "raise" THEN v
                 ELSE Ev(Return(0 - v.result.value), v.steps + 1)
    ELSE Ev(Raise("TypeError", "Unsupported operation: " \o expr.node), 0)

\* lines 231-235: any exception becomes ValueError("Invalid expression: ..")
calculate(expression) ==
    LET tree == Parse(expression)
        v == IF tree.kind = "raise" THEN Ev(tree, 0) ELSE eval_expr(tree.value)
    IN IF v.result.kind = "raise"
       THEN Ev(Raise("ValueError", "Invalid expression: " \o v.result.msg),
               v.steps)
       ELSE v

\* three digits of a group after the first
Pad3(n) ==
    IF n < 10 THEN "00" \o ToString(n)
    ELSE IF n < 100 THEN "0" \o ToString(n) ELSE ToString(n)

\* line 246: f"{amount:,.2f}" of a whole amount below a million
Fixed2(amount) ==
    (IF amount < 1000 THEN ToString(amount)
     ELSE ToString(amount \div 1000) \o "," \o Pad3(amount % 1000))
    \o ".00"

\* line 245: currency_symbols.get(currency, currency), for the dollar and
\* for codes the table does not hold
currency_symbols(currency) == IF currency = "USD" THEN "$" ELSE currency

\* lines 237-246
format_currency(amount, currency) ==
    Return(currency_symbols(currency) \o Fixed2(amount))

\* lines 180-182 and 249-251: what a new FunctionRegistry holds
FunctionRegistry == {"get_current_time", "calculate", "format_currency"}

\* line 190: get_function
get_function_AnyName(name) == name
get_function(name) == IF name \in FunctionRegistry THEN name ELSE None


\* lines 105-108: func(**(parameters or {})); arguments that do not fit the
\* signature raise TypeError before the body runs
CallFunction(func, parameters) ==
    CASE func = "get_current_time" ->
            IF Keys(parameters) = {} THEN Ev(Return(Timestamp), 0)
            ELSE Ev(Raise("TypeError", "unexpected keyword argument"), 0)
      [] func = "calculate" ->
            IF Keys(parameters) = {"expression"}
            THEN calculate(parameters.expression)
            ELSE Ev(Raise("TypeError", "missing or unexpected argument"), 0)
      [] func = "format_currency" ->
            IF "amount" \in Keys(parameters)
               /\ Keys(parameters) \subseteq {"amount", "currency"}
            THEN Ev(format_currency(Value(parameters.amount),
                                    Get(parameters, "currency", "USD")), 0)
            ELSE Ev(Raise("TypeError", "missing or unexpected argument"), 0)
      [] OTHER -> Ev(Raise("TypeError", "object is not callable"), 0)

\* lines 85-121
execute_function_tool(configuration, parameters) ==
    LET function_name == Get(configuration, "function_name", None)
        func == get_function(function_name)
    IN IF ~TruthyStr(function_name)
       THEN Done(Raise("ValueError", "Function tool missing function name"),
                 <<>>, <<>>, 0)
       ELSE IF func = None
       THEN Done(Return([success |-> FALSE,
                         error |-> "Function '" \o function_name
                                   \o "' not found",
                         timestamp |-> Timestamp]),
                 <<>>, <<>>, 0)
       ELSE LET r == CallFunction(func, parameters)
            IN Done(Return(IF r.result.kind = "raise"
                           THEN [success |-> FALSE, error |-> r.result.msg,
                                 timestamp |-> Timestamp]
                           ELSE [success |-> TRUE, data |-> r.result.value,
                                 timestamp |-> Timestamp]),
                    <<>>, <<func>>, r.steps)

\* lines 29-35: except Exception around the dispatch; CancelledError is
\* no Exception and passes through
Caught_Reraised(d) == d
Caught(d) ==
    IF d.result.kind = "raise" /\ d.result.exc # "CancelledError"
    THEN [d EXCEPT !.result = Return([success |-> FALSE,
                                      error |-> d.result.msg,
                                      timestamp |-> Timestamp])]
    ELSE d

\* lines 17-28: dispatch on the type of the tool
Dispatch(tool_config, parameters, outcome) ==
    LET tool_type == Get(tool_config, "type", None)
        configuration == tool_config.configuration
    IN IF tool_type = "api"
       THEN execute_api_tool(configuration, parameters, outcome)
       ELSE IF tool_type = "function"
       THEN execute_function_tool(configuration, parameters)
       ELSE IF tool_type = "webhook"
       THEN execute_webhook_tool(configuration, parameters, outcome)
       ELSE Done(Raise("ValueError", "Unsupported tool type: " \o tool_type),
                 <<>>, <<>>, 0)

\* the tools and parameters given to execute_tool
Url == "https://api.example.com/orders"
NoConfiguration ==
    [endpoint |-> Absent, method |-> Absent, webhook_url |-> Absent,
     function_name |-> Absent, default_params |-> NoDict,
     default_payload |-> NoDict]
DefaultParams == {<<[currency |-> "EUR"]>>, <<[limit |-> "10"]>>}
DefaultPayloads ==
    {<<[source |-> "crm"]>>, <<[timestamp |-> "1970-01-01T00:00:00"]>>,
     <<[parameters |-> [currency |-> "EUR"]]>>}
Methods == {Absent, None, "GET", "post", "PUT"}
FunctionNames == FunctionRegistry \cup {Absent, "", "does_not_exist"}
ToolConfigs ==
    {[type |-> "api",
      configuration |-> [NoConfiguration EXCEPT !.endpoint = u, !.method = m]] :
        u \in {Absent, "", Url}, m \in Methods}
    \cup
    {[type |-> "webhook",
      configuration |-> [NoConfiguration EXCEPT !.webhook_url = u,
                                                !.method = m]] :
        u \in {Absent, "", Url}, m \in Methods}
    \cup
    {[type |-> "api",
      configuration |-> [NoConfiguration EXCEPT !.endpoint = Url,
                                                !.default_params = d]] :
        d \in DefaultParams}
    \cup
    {[type |-> "webhook",
      configuration |-> [NoConfiguration EXCEPT !.webhook_url = Url,
                                                !.default_payload = d]] :
        d \in DefaultPayloads}
    \cup
    {[type |-> "function",
      configuration |-> [NoConfiguration EXCEPT !.function_name = f]] :
        f \in FunctionNames}
    \cup
    {[type |-> t, configuration |-> NoConfiguration] : t \in {"sms", Absent}}
Parameters ==
    {NoParameters}
    \cup {[NoParameters EXCEPT !.expression = e] : e \in Expressions}
    \cup {[NoParameters EXCEPT !.amount = Some(a), !.currency = c] :
            a \in {5, 1234}, c \in {Absent, "USD", "XYZ"}}

ToolInit ==
    /\ agents = AgentRows
    /\ phones = NoRows
    /\ calls = <<>>
    /\ worker = <<>>
    /\ ended = {}
    /\ last = [op |-> "none"]
    /\ nsteps = 0
    /\ SessionIdle
    /\ \E c \in ToolConfigs, p \in Parameters :
          tool = [op |-> "ready", tool_config |-> c, parameters |-> p,
                  registered |-> {}]

\* what a call of execute_tool has come to: suspended in the HTTP request
\* ("request") or ended ("execute_tool")
Called(outcome, d) ==
    [op |-> IF d.result.kind = "pending" THEN "request" ELSE "execute_tool",
     outcome |-> IF d.http = <<>> \/ d.result.kind = "pending"
                 THEN Absent ELSE outcome,
     result |-> d.result, http |-> d.http, invoked |-> d.invoked,
     steps |-> d.steps]

\* lines 15-35, from the call to its first suspension: the await of the
\* HTTP request (lines 52, 59, 141, 147), or to the end when no request is
\* sent
execute_tool ==
    /\ tool.op = "ready"
    /\ tool' = [tool_config |-> tool.tool_config,
                parameters |-> tool.parameters,
                registered |-> tool.registered] @@
               Called(Pending, Caught(Dispatch(tool.tool_config,
                                               tool.parameters, Pending)))
    /\ UNCHANGED <<cvars, svars>>

\* the HTTP client gives its answer, or raises, and execute_tool runs from
\* the await to its end
execute_tool_resumed(outcome) ==
    /\ tool.op = "request"
    /\ tool' = [tool_config |-> tool.tool_config,
                parameters |-> tool.parameters,
                registered |-> tool.registered] @@
               Called(outcome, Caught(Dispatch(tool.tool_config,
                                               tool.parameters, outcome)))
    /\ UNCHANGED <<cvars, svars>>

\* the names given to register_function
RegisteredNames == {"does_not_exist", "calculate"}

\* lines 184-186, called on a FunctionRegistry the program has made: the
\* name is added to the dict of that instance
register_function(name) ==
    /\ tool.op \in {"ready", "request"}
    /\ name \notin tool.registered
    /\ tool' = [tool EXCEPT !.registered = @ \cup {name}]
    /\ UNCHANGED <<cvars, svars>>

ToolNext ==
    \/ execute_tool
    \/ \E o \in Outcomes : execute_tool_resumed(o)
    \/ \E n \in RegisteredNames : register_function(n)

ToolSpec == ToolInit /\ [][ToolNext]_vars

\* ------------------------------------------------------------------------
\* Properties
\* ------------------------------------------------------------------------
\* an operation named op has just been performed
Did(op) == nsteps' = nsteps + 1 /\ last'.op = op

NonTerminal == {"initiated", "connecting", "connected"}

LegalEdges ==
    {<<"initiated", "connecting">>, <<"connecting", "connected">>,
     <<"connected", "completed">>}
    \cup {<<s, "failed">> : s \in NonTerminal}

\* C1: once a call record's status is completed or failed, no later status
\* report (update_call_status, the worker's failure handler, the update
\* route) changes the stored status.
C1_TerminalStatusIsFinal ==
    [][(Did("update_call_status") \/ Did("update_call")
        \/ Did("run_livekit_worker"))
       => \A c \in DOMAIN calls :
             calls[c].status \in Terminal
                => calls'[c].status = calls[c].status]_vars

\* C2: every status change applied to a record in a non-terminal state is
\* one of the edges initiated->connecting, connecting->connected,
\* connected->completed or non-terminal->failed.
C2_OnlyLegalEdges ==
    [][\A c \in DOMAIN calls :
          (calls[c].status \in NonTerminal /\ calls'[c].status # calls[c].status)
          => <<calls[c].status, calls'[c].status>> \in LegalEdges]_vars

\* C3: end_call on a call whose status is already completed returns success
\* and leaves every field of every record as it was; and every successful
\* end_call leaves the call completed, so ending twice equals ending once.
C3_EndOnCompletedChangesNothing ==
    [][Did("end_call") =>
         \A c \in DOMAIN calls :
            last'.call_id = c =>
               /\ last'.ret.success
               /\ calls'[c].status = "completed"
               /\ calls[c].status = "completed" => calls' = calls]_vars

C3_Witness ==
    /\ last.op = "end_call"
    /\ last.was = "completed"
    /\ last.ret.success
    /\ calls[last.call_id].duration = Some(7)
    /\ calls[last.call_id].recording_url = "rec"

\* C4: end_call on a call whose status is already failed returns success
\* and the record's status remains failed.
C4_EndOnFailedKeepsFailed ==
    [][Did("end_call") =>
         \A c \in DOMAIN calls :
            (last'.call_id = c /\ calls[c].status = "failed") =>
               (last'.ret.success /\ calls'[c].status = "failed")]_vars

\* C5: update_call_status with a room name that matches no call record
\* changes no table, creates no record, launches nothing and returns
\* normally.
C5_UnknownRoomIsNoOp ==
    [][(Did("update_call_status")
        /\ \A c \in DOMAIN calls : calls[c].room_name # last'.room_name)
       => (/\ last'.ret = None
           /\ UNCHANGED <<agents, phones, calls, worker, ended>>)]_vars

C5_Witness ==
    /\ last.op = "update_call_status"
    /\ calls # <<>>
    /\ \A c \in DOMAIN calls : calls[c].room_name # last.room_name

\* C6: initiate_call for an agent that does not exist or is not active
\* returns success false with an error and creates no phone number record,
\* no call record and no worker task.
C6_RejectedInitiateHasNoEffect ==
    [][(Did("initiate_call")
        /\ ~(last'.agent_id \in DOMAIN agents
             /\ agents[last'.agent_id].is_active))
       => (/\ last'.ret.success = FALSE
           /\ last'.ret.error = "agent_not_found"
           /\ UNCHANGED <<agents, phones, calls, worker, ended>>)]_vars

C6_Witness ==
    /\ last.op = "initiate_call"
    /\ last.agent_id \in DOMAIN agents
    /\ ~agents[last.agent_id].is_active
    /\ ~last.ret.success
    /\ calls # <<>>

\* C7: every initiate_call of an active agent for a destination number
\* leaves one phone_numbers row for that number (the row that was there is
\* reused, none is added beside it), does not fail on the unique constraint
\* of phone_numbers, and the call record it creates references that row.
C7_OnePhoneRowPerNumber ==
    [][(Did("initiate_call") /\ ActiveAgent(last'.agent_id)) =>
         LET number == last'.phone_number
             before == PhoneIdsOf(number)
             after == {i \in DOMAIN phones' :
                          phones'[i].phone_number = number}
         IN /\ Cardinality(after) = 1
            /\ before # {} => phones' = phones
            /\ ~last'.ret.success
                  => last'.ret.error # "integrity_phone_number"
            /\ last'.ret.success
                  => calls'[last'.ret.call_id].phone_number_id \in after]_vars

C7_Witness ==
    /\ Len(calls) = 2
    /\ Cardinality(DOMAIN phones) = 1
    /\ last.op = "initiate_call"
    /\ last.ret.success
    /\ worker[1].dial_info.phone_number = worker[2].dial_info.phone_number
    /\ calls[1].phone_number_id = calls[2].phone_number_id
    /\ calls[1].phone_number_id \in DOMAIN phones

\* C8: no two call records share a room name, and the room name a
\* successful initiate_call returns is the one of the new record and of no
\* other record.
C8_RoomNamesUnique ==
    /\ \A i, j \in DOMAIN calls :
          calls[i].room_name = calls[j].room_name => i = j
    /\ (last.op = "initiate_call" /\ last.ret.success) =>
          /\ last.ret.call_id \in DOMAIN calls
          /\ \A c \in DOMAIN calls :
                calls[c].room_name = last.ret.room_name <=> c = last.ret.call_id

C8_Witness ==
    /\ Len(calls) = 2
    /\ last.op = "initiate_call"
    /\ last.ret.success
    /\ last.ret.call_id = 2

\* C9: a successful initiate_call adds one call record, with status
\* initiated, leaves the other records alone, creates the worker task and
\* returns call id, room name and status initiated while that task has not
\* run.
C9_InitiateReturnsBeforeWorkerRuns ==
    [][(Did("initiate_call") /\ last'.ret.success) =>
         LET n == Len(calls) + 1 IN
         /\ Len(calls') = n
         /\ \A c \in DOMAIN calls : calls'[c] = calls[c]
         /\ calls'[n].status = "initiated"
         /\ Len(worker') = n
         /\ \A c \in DOMAIN worker : worker'[c] = worker[c]
         /\ worker'[n].pc = "scheduled"
         /\ worker'[n].room_name = calls'[n].room_name
         /\ last'.ret.call_id = n
         /\ last'.ret.room_name = calls'[n].room_name
         /\ last'.ret.status = "initiated"]_vars

C9_Witness ==
    /\ last.op = "initiate_call"
    /\ last.ret.success
    /\ worker[last.ret.call_id].pc = "scheduled"
    /\ calls[last.ret.call_id].status = "initiated"

\* C11: every run of the worker of an accepted call that meets an error
\* (before the dial or at the dial) leaves the call record failed.
C11_WorkerErrorMarksFailed ==
    [][(Did("run_livekit_worker") /\ last'.error # None)
       => calls'[last'.call_id].status = "failed"]_vars

\* C10: once end_call has returned success for a call, the worker task of
\* that call performs no further step.
C10_EndCancelsWorker ==
    [][\A c \in DOMAIN worker : c \in ended => worker'[c] = worker[c]]_vars

\* ------------------------------------------------------------------------
\* Properties of the session worker
\* ------------------------------------------------------------------------
\* the invocations of one control action
Acts(kind) == {i \in DOMAIN ctl : ctl[i].kind = kind}

\* coroutine c has made the request
Requested(c, ev, what) == \E k \in DOMAIN log[c] : log[c][k] = Entry(ev, what)

\* every request b of coroutine c comes after a request a of it
Precedes(c, a, b) ==
    \A k \in DOMAIN log[c] :
        log[c][k] = b => \E j \in 1..(k - 1) : log[c][j] = a

\* control action i has run to its end
Finished(i) == ctl[i].pc \in {"returned", "raised"}

\* C12: transfer_call without a transfer target (absent or empty) declines
\* and has no effect: no notice, no provider transfer, no hangup.
C12_NoTargetDeclines ==
    \A i \in Acts("transfer_call") :
        ep.dial_info.transfer_to \in {None, ""}
        => /\ ctl[i].pc = "returned"
           /\ ctl[i].ret = "Cannot transfer call"
           /\ log[i] = <<>>
           /\ \A r \in Range(ep.speech) : r[1] # i

C12_Witness ==
    \E i \in Acts("transfer_call") :
        /\ ep.dial_info.transfer_to = ""
        /\ ctl[i].ret = "Cannot transfer call"

\* C13: transfer_call with a target requests the notice before the provider
\* transfer; it hangs up exactly when the transfer did not succeed, and
\* then after the apology; after a successful transfer there is no hangup
\* and no call record has been written.
C13_HangupIffTransferFails ==
    \A i \in Acts("transfer_call") :
        /\ Precedes(i, Entry("reply", "notice"),
                       Entry("transfer", ep.dial_info.transfer_to))
        /\ Precedes(i, Entry("reply", "apology"), Entry("hangup", None))
        /\ ctl[i].ret = "Transfer failed" => Requested(i, "hangup", None)
        /\ ctl[i].ret = "Call transferred successfully"
           => /\ Requested(i, "transfer", ep.dial_info.transfer_to)
              /\ ~Requested(i, "hangup", None)
              /\ ~Requested(i, "reply", "apology")
              /\ calls = <<>>

C13_Witness ==
    \E i, j \in Acts("transfer_call") :
        /\ ctl[i].ret = "Call transferred successfully"
        /\ ctl[j].ret = "Transfer failed"
        /\ Requested(j, "transfer", ep.dial_info.transfer_to)

\* C14: end_call asks for the hangup only once the reply that was being
\* spoken when it was called has been played out, and every end_call that
\* has run to its end has asked for the hangup.
C14_EndCallDrainsThenHangsUp ==
    /\ [][\A i \in DOMAIN ctl' :
            (/\ ctl'[i].kind = "end_call"
             /\ Requested(i, "hangup", None)'
             /\ ~(i \in DOMAIN ctl /\ Requested(i, "hangup", None)))
            => ctl'[i].wait \notin Range(ep.speech)]_vars
    /\ [](\A i \in Acts("end_call") :
            Finished(i) => Requested(i, "hangup", None))

\* C15: every call of detected_answering_machine asks for the hangup, also
\* one made after the session has started and before the participant is
\* bound.
C15_AnsweringMachineHangsUp ==
    \A i \in Acts("detected_answering_machine") :
        Requested(i, "hangup", None)

\* C20: the session start is scheduled before the dial is requested, in
\* every execution of the entrypoint.
C20_SessionStartBeforeDial ==
    /\ Precedes(0, Entry("session_start", None), Entry("dial", Callee))
    /\ ep.pc = "dialing" => ep.sess # "none"

C20_Witness ==
    /\ ep.pc = "dialing"
    /\ Requested(0, "dial", Callee)
    /\ ep.sess = "created"

\* ------------------------------------------------------------------------
\* Properties of tool dispatch
\* ------------------------------------------------------------------------
\* execute_tool has been called on a tool of this type
Executed(type) ==
    tool.op = "execute_tool" /\ tool.tool_config.type = type

\* C16: every call of execute_tool, whatever the type of the tool and
\* whatever happens on the way, returns a record with a boolean success, a
\* timestamp, data when success is true and error when it is false; no
\* exception leaves the call.
C16_AlwaysEnvelope ==
    tool.op = "execute_tool"
    => /\ tool.result.kind = "return"
       /\ LET r == tool.result.value
          IN /\ {"success", "timestamp"} \subseteq DOMAIN r
             /\ r.success \in BOOLEAN
             /\ r.success => "data" \in DOMAIN r
             /\ ~r.success => "error" \in DOMAIN r

C16_Witness ==
    /\ Executed("webhook")
    /\ tool.http # <<>>
    /\ tool.outcome.kind = "raise"
    /\ tool.outcome.exc = "ReadTimeout"
    /\ tool.result.kind = "return"
    /\ ~tool.result.value.success

\* C17: for an api or webhook tool a response outside 2xx gives success
\* false with the status code in the result and, with the raw body, in the
\* error text; a 2xx response gives success true.
C17_StatusDecidesSuccess ==
    (/\ tool.op = "execute_tool"
     /\ tool.tool_config.type \in {"api", "webhook"}
     /\ tool.http # <<>>
     /\ tool.outcome.kind = "response")
    => /\ tool.result.kind = "return"
       /\ LET o == tool.outcome
              r == tool.result.value
          IN IF o.status_code \in 200..299
             THEN r.success
             ELSE /\ ~r.success
                  /\ r.status_code = o.status_code
                  /\ r.error = "HTTP " \o ToString(o.status_code) \o ": "
                               \o o.text

\* the function tool was given a name
Named ==
    /\ Executed("function")
    /\ tool.tool_config.configuration.function_name \notin {Absent, None, ""}

\* C18: a function tool whose name the registry does not hold returns
\* success false with an error saying the function was not found and calls
\* no function; a name the registry holds is called exactly once and what
\* it returns is the data of the result.
C18_FunctionLookup ==
    Named
    => LET name == tool.tool_config.configuration.function_name
           r == tool.result.value
       IN /\ tool.result.kind = "return"
          /\ IF name \in {"get_current_time", "calculate", "format_currency"}
             THEN /\ tool.invoked = <<name>>
                  /\ (name = "get_current_time" /\ r.success)
                     => r.data = "utcnow"
                  /\ (name = "calculate" /\ tool.parameters.expression = "2+3*4")
                     => r.success /\ r.data = 14
                  /\ (name = "calculate" /\ tool.parameters.expression = "7^2")
                     => r.success /\ r.data = 5
                  /\ (name = "format_currency" /\ tool.parameters.amount = {1234}
                      /\ tool.parameters.currency = "XYZ")
                     => r.success /\ r.data = "XYZ1,234.00"
             ELSE /\ ~r.success
                  /\ r.error = "Function '" \o name \o "' not found"
                  /\ tool.invoked = <<>>

C18_Witness ==
    /\ Named
    /\ tool.tool_config.configuration.function_name = "does_not_exist"
    /\ ~tool.result.value.success

\* the tree holds only numbers and the operators of the whitelist
RECURSIVE Whitelisted(_)
Whitelisted(expr) ==
    IF expr.node = "Num" THEN TRUE
    ELSE IF expr.node = "BinOp"
    THEN /\ expr.op \in {"Add", "Sub", "Mult", "Div", "Pow", "BitXor"}
         /\ Whitelisted(expr.left)
         /\ Whitelisted(expr.right)
    ELSE IF expr.node = "UnaryOp"
    THEN expr.op = "USub" /\ Whitelisted(expr.operand)
    ELSE FALSE

\* C19: calculate rejects an expression that holds a node outside the
\* whitelist before it makes any evaluation step.
C19_RejectedBeforeEvaluation ==
    (/\ Executed("function")
     /\ tool.tool_config.configuration.function_name = "calculate"
     /\ tool.parameters.expression # Absent
     /\ Parse(tool.parameters.expression).kind = "return"
     /\ ~Whitelisted(Parse(tool.parameters.expression).value))
    => /\ ~tool.result.value.success
       /\ tool.steps = 0

\* ------------------------------------------------------------------------
\* The join of session start and dial, registration, and the control
\* actions taken together
\* ------------------------------------------------------------------------
\* C21: the session start and the dial are joined fail-fast: a dial that
\* fails while the session start is pending cancels it, a session start
\* that fails while the dial is outstanding cancels the dial wait, either
\* failure is reported as failed, and the worker waits for the participant
\* only when both have succeeded.
C21_JoinIsFailFast ==
    [][/\ (ep.pc = "dialing" /\ ep'.pc = "shutdown" /\ ep.sess = "created")
          => ep'.sess = "cancelled"
       /\ (ep.pc = "dialing" /\ ep.sess = "failed")
          => ep'.pc # "await_session"
       /\ (ep.pc # "shutdown" /\ ep'.pc = "shutdown")
          => Requested(0, "update_call_status", "failed")'
       /\ ep'.pc = "wait_participant" => ep'.sess = "started"]_vars

\* what the event loop and the session runtime do by themselves: ready
\* coroutines are resumed and replies are played out. The provider, the
\* callee and the AI session owe the worker nothing.
SessionFairness ==
    /\ WF_vars(entrypoint_config)
    /\ WF_vars(entrypoint_start_session)
    /\ WF_vars(entrypoint_dial)
    /\ WF_vars(entrypoint_session_joined)
    /\ WF_vars(entrypoint_greeted)
    /\ WF_vars(speech_done)
    /\ WF_vars(\E i \in 1..MaxActs : transfer_call_request(i))
    /\ WF_vars(\E i \in 1..MaxActs : transfer_call_apologised(i))
    /\ WF_vars(\E i \in 1..MaxActs : agent_end_call_drained(i))

SessionLive == SessionInit /\ [][SessionNext]_vars /\ SessionFairness

\* C22: after the dial has been answered the wait for the participant to
\* register always ends, by registration or by a timeout.
C22_RegistrationWaitEnds ==
    (ep.pc = "wait_participant") ~> (ep.pc # "wait_participant")

\* C23: once the participant has registered the worker has reported
\* connected, and the opening reply is requested only after the participant
\* has been bound.
C23_ConnectedThenBoundThenGreeting ==
    /\ ep.participant # None => Requested(0, "update_call_status", "connected")
    /\ Precedes(0, Entry("set_participant", Callee), Entry("reply", "greeting"))
    /\ Requested(0, "reply", "greeting") => ep.participant # None

\* the control actions that have started and not run to their end
InFlight == {i \in DOMAIN ctl : ~Finished(i)}

\* C24: at most one control action of a call is in flight at a time.
C24_ControlActionsExclusive == Cardinality(InFlight) <= 1

\* ------------------------------------------------------------------------
\* Tools of an agent: the bindings (rows of agent_tools with their tool),
\* the agent configuration built from them, and the two operations that
\* make a ToolExecutor of their own: the tool-test route and
\* DynamicVoiceAgent.execute_dynamic_tool.
\* ------------------------------------------------------------------------
Url2 == "https://api.example.com/v2/orders"

\* the table tools at the start; index = id
ToolRows ==
    <<[name |-> "lookup_order", tool_type |-> "api", is_active |-> TRUE,
       configuration |-> [NoConfiguration EXCEPT !.endpoint = Url]],
      [name |-> "total", tool_type |-> "function", is_active |-> TRUE,
       configuration |-> [NoConfiguration EXCEPT !.function_name = "calculate"]],
      [name |-> "legacy", tool_type |-> "webhook", is_active |-> FALSE,
       configuration |-> [NoConfiguration EXCEPT !.webhook_url = Url]]>>
\* tool ids a request can name
ToolIdInputs == {1, 2, 3, 4}
\* the agent of the call that is followed
CallAgent == 1

\* column agent_tools.configuration: null, or a JSON object
NoOverride == <<>>
Override(c) == <<c>>
Overrides ==
    {NoOverride, Override(NoConfiguration),
     Override([NoConfiguration EXCEPT !.endpoint = Url2])}

\* the table agent_tools at the start: lookup_order is bound to the agent
\* of the call, enabled, without override
AgentToolRows ==
    <<[agent_id |-> CallAgent, tool_id |-> 1, is_enabled |-> TRUE,
       configuration |-> NoOverride]>>

\* a row of agent_tools with the row of tools its relationship tool loads
Joined(agent_tool, rows) ==
    [tool |-> rows[agent_tool.tool_id], is_enabled |-> agent_tool.is_enabled,
     configuration |-> agent_tool.configuration]

\* ids of a table in the order a query without ORDER BY gives them
RECURSIVE InOrder(_)
InOrder(ids) ==
    IF ids = {} THEN <<>> ELSE <<Min(ids)>> \o InOrder(ids \ {Min(ids)})

\* db.query(AgentTool).filter(AgentTool.agent_id == agent_id).join(Tool)
AgentToolsOf(agent_id, agent_tools, rows) ==
    LET ids == InOrder({i \in DOMAIN agent_tools :
                          /\ agent_tools[i].agent_id = agent_id
                          /\ agent_tools[i].tool_id \in DOMAIN rows})
    IN [k \in DOMAIN ids |-> Joined(agent_tools[ids[k]], rows)]

\* truthiness of a JSON column: null and the empty object are false
TruthyDict(o) == o # NoOverride /\ o[1] # NoConfiguration

\* agent_tool.configuration or agent_tool.tool.configuration
EffectiveConfiguration(agent_tool) ==
    IF TruthyDict(agent_tool.configuration)
    THEN agent_tool.configuration[1]
    ELSE agent_tool.tool.configuration

\* AgentTool.is_enabled == True
IsEnabled_Any(agent_tool) == TRUE
IsEnabled(agent_tool) == agent_tool.is_enabled

\* call_worker.py 195-204, agent_factory.py 58-67: one entry of tools_data
ToolData(agent_tool) ==
    [name |-> agent_tool.tool.name, type |-> agent_tool.tool.tool_type,
     configuration |-> EffectiveConfiguration(agent_tool)]

\* call_worker.py 189-204, agent_factory.py 52-67
ToolsData(agent_tools) ==
    LET enabled == SelectSeq(agent_tools, IsEnabled)
    IN [k \in DOMAIN enabled |-> ToolData(enabled[k])]

MaxRoutes == 2

\* no tool operation is followed
NoRun == [op |-> "none", pc |-> "ended"]

\* tool.rows and tool.agent_tools are the tables tools and agent_tools,
\* tool.tools the tools of the agent configuration the worker has built
\* (tool.built), tool.run the operation that is followed
DynamicInit ==
    /\ agents = AgentRows
    /\ phones = NoRows
    /\ calls = <<>>
    /\ worker = <<>>
    /\ ended = {}
    /\ last = [op |-> "none"]
    /\ nsteps = 0
    /\ SessionIdle
    /\ tool = [rows |-> ToolRows, agent_tools |-> AgentToolRows,
               built |-> FALSE, tools |-> <<>>, run |-> NoRun]

\* what a step of the worker or of a tool operation leaves alone
DynamicStep == UNCHANGED <<cvars, svars>>

\* one request to a route of the tables tools and agent_tools
RouteStep ==
    /\ nsteps < MaxRoutes
    /\ nsteps' = nsteps + 1
    /\ UNCHANGED <<agents, phones, calls, worker, ended, svars>>

\* call_worker.py 183-217: the agent configuration the worker builds; an
\* agent that is absent or inactive raises ValueError before it
agent_config ==
    /\ DynamicStep
    /\ ~tool.built
    /\ ActiveAgent(CallAgent)
    /\ tool' = [tool EXCEPT
                  !.built = TRUE,
                  !.tools = ToolsData(AgentToolsOf(CallAgent, tool.agent_tools,
                                                   tool.rows))]

\* agent_factory.py 46-82: the tools given to DynamicAssistant
create_agent_session ==
    /\ DynamicStep
    /\ tool.run.pc = "ended"
    /\ ActiveAgent(CallAgent)
    /\ tool' = [tool EXCEPT
                  !.run = [op |-> "create_agent_session", pc |-> "ended",
                           tools |-> ToolsData(AgentToolsOf(CallAgent,
                                                   tool.agent_tools,
                                                   tool.rows))]]

\* ---- the routes of agent_tools (routes/agents.py) ----
\* ids of the rows of agent_tools of this agent and this tool
AssignmentIds(agent_id, tool_id) ==
    {i \in DOMAIN tool.agent_tools :
        /\ tool.agent_tools[i].agent_id = agent_id
        /\ tool.agent_tools[i].tool_id = tool_id}

\* the answer of a route and the table agent_tools it leaves
Routed(op, ret, agent_tools) ==
    /\ last' = [op |-> op, ret |-> ret]
    /\ tool' = [tool EXCEPT !.agent_tools = agent_tools]

\* POST /agents/{agent_id}/tools
add_tool_to_agent(agent_id, tool_id, is_enabled, configuration) ==
    /\ RouteStep
    /\ IF ~AgentExists(agent_id) \/ tool_id \notin DOMAIN tool.rows
       THEN Routed("add_tool_to_agent", 404, tool.agent_tools)
       ELSE IF AssignmentIds(agent_id, tool_id) # {}
       THEN Routed("add_tool_to_agent", 400, tool.agent_tools)
       ELSE Routed("add_tool_to_agent", 201,
                   Inserted(tool.agent_tools,
                            [agent_id |-> agent_id, tool_id |-> tool_id,
                             is_enabled |-> is_enabled,
                             configuration |-> configuration]))

\* AgentToolUpdate bodies: fields are the keys the body carries
AgentToolUpdates ==
    {[fields |-> {"is_enabled"}, is_enabled |-> b,
      configuration |-> NoOverride] : b \in BOOLEAN}
    \cup {[fields |-> {"configuration"}, is_enabled |-> TRUE,
           configuration |-> c] : c \in Overrides}

\* for field, value in update_data.items(): setattr(agent_tool, field, value)
AgentToolUpdated(row, p) ==
    [row EXCEPT
       !.is_enabled = IF "is_enabled" \in p.fields THEN p.is_enabled ELSE @,
       !.configuration = IF "configuration" \in p.fields
                         THEN p.configuration ELSE @]

\* PUT /agents/{agent_id}/tools/{tool_id}
update_agent_tool(agent_id, tool_id, p) ==
    /\ RouteStep
    /\ IF AssignmentIds(agent_id, tool_id) = {}
       THEN Routed("update_agent_tool", 404, tool.agent_tools)
       ELSE Routed("update_agent_tool", 200,
                   [tool.agent_tools EXCEPT
                      ![Min(AssignmentIds(agent_id, tool_id))] =
                          AgentToolUpdated(@, p)])

\* DELETE /agents/{agent_id}/tools/{tool_id}
remove_tool_from_agent(agent_id, tool_id) ==
    /\ RouteStep
    /\ IF AssignmentIds(agent_id, tool_id) = {}
       THEN Routed("remove_tool_from_agent", 404, tool.agent_tools)
       ELSE Routed("remove_tool_from_agent", 204,
                   Deleted(tool.agent_tools,
                           Min(AssignmentIds(agent_id, tool_id))))

\* ---- the routes of tools (routes/tools.py) ----
\* ids of the rows of tools with this name
ToolIdsNamed(name) == {i \in DOMAIN tool.rows : tool.rows[i].name = name}

\* the answer of a route and the table tools it leaves
ToolsRouted(op, ret, rows) ==
    /\ last' = [op |-> op, ret |-> ret]
    /\ tool' = [tool EXCEPT !.rows = rows]

\* lines 34-50 and 143-160: a configuration that is not empty must carry
\* the key of its tool type
ValidConfiguration(tool_type, configuration) ==
    \/ configuration = NoConfiguration
    \/ tool_type = "api" /\ configuration.endpoint # Absent
    \/ tool_type = "function" /\ configuration.function_name # Absent
    \/ tool_type = "webhook" /\ configuration.webhook_url # Absent
    \/ tool_type \notin {"api", "function", "webhook"}

\* ToolCreate bodies
ToolCreates ==
    {[name |-> "refund", tool_type |-> "webhook",
      configuration |-> [NoConfiguration EXCEPT !.webhook_url = Url]],
     [name |-> "total", tool_type |-> "function",
      configuration |-> [NoConfiguration EXCEPT !.function_name = "calculate"]],
     [name |-> "refund", tool_type |-> "sms", configuration |-> NoConfiguration],
     [name |-> "refund", tool_type |-> "api",
      configuration |-> [NoConfiguration EXCEPT !.webhook_url = Url]]}

\* POST /tools; Tool(**tool_data.dict()): is_active defaults to True
create_tool(p) ==
    /\ RouteStep
    /\ IF \/ ToolIdsNamed(p.name) # {}
          \/ p.tool_type \notin {"api", "function", "webhook"}
          \/ ~ValidConfiguration(p.tool_type, p.configuration)
       THEN ToolsRouted("create_tool", 400, tool.rows)
       ELSE ToolsRouted("create_tool", 201,
                        Inserted(tool.rows,
                                 [name |-> p.name, tool_type |-> p.tool_type,
                                  is_active |-> TRUE,
                                  configuration |-> p.configuration]))

\* ToolUpdate bodies: fields are the keys the body carries; None in a
\* field the body carries is an explicit null, a field the body does not
\* carry reads as None (name, tool_type) or as no configuration
ToolUpdate(fields, name, tool_type, is_active, configuration) ==
    [fields |-> fields, name |-> name, tool_type |-> tool_type,
     is_active |-> is_active, configuration |-> configuration]

ToolUpdates ==
    {ToolUpdate({"is_active"}, None, None, b, NoConfiguration) :
        b \in BOOLEAN}
    \cup {ToolUpdate({"name"}, n, None, TRUE, NoConfiguration) :
             n \in {"total", None}}
    \cup {ToolUpdate({"tool_type"}, None, t, TRUE, NoConfiguration) :
             t \in {"function", "sms", None}}
    \cup {ToolUpdate({"configuration"}, None, None, TRUE,
                     [NoConfiguration EXCEPT !.endpoint = Url2])}
    \cup {ToolUpdate({"tool_type", "configuration"}, None, "webhook", TRUE, c) :
             c \in {[NoConfiguration EXCEPT !.endpoint = Url2],
                    [NoConfiguration EXCEPT !.webhook_url = Url2]}}

\* for field, value in update_data.items(): setattr(tool, field, value)
ToolUpdated(row, p) ==
    [row EXCEPT
       !.name = IF "name" \in p.fields THEN p.name ELSE @,
       !.tool_type = IF "tool_type" \in p.fields THEN p.tool_type ELSE @,
       !.is_active = IF "is_active" \in p.fields THEN p.is_active ELSE @,
       !.configuration = IF "configuration" \in p.fields
                         THEN p.configuration ELSE @]

\* tools.py 145: tool_data.tool_type or tool.tool_type
TypeOrStored(tool_type, row) ==
    IF TruthyStr(tool_type) THEN tool_type ELSE row.tool_type

\* PUT /tools/{tool_id}; tools.name and tools.tool_type are NOT NULL: an
\* explicit null makes the commit raise, rollback, HTTP 500
update_tool(tool_id, p) ==
    /\ RouteStep
    /\ IF tool_id \notin DOMAIN tool.rows
       THEN ToolsRouted("update_tool", 404, tool.rows)
       ELSE IF \/ /\ TruthyStr(p.name)
                  /\ p.name # tool.rows[tool_id].name
                  /\ ToolIdsNamed(p.name) \ {tool_id} # {}
               \/ /\ TruthyStr(p.tool_type)
                  /\ p.tool_type # tool.rows[tool_id].tool_type
                  /\ p.tool_type \notin {"api", "function", "webhook"}
               \/ ~ValidConfiguration(
                      TypeOrStored(p.tool_type, tool.rows[tool_id]),
                      p.configuration)
       THEN ToolsRouted("update_tool", 400, tool.rows)
       ELSE IF \/ "name" \in p.fields /\ p.name = None
               \/ "tool_type" \in p.fields /\ p.tool_type = None
       THEN ToolsRouted("update_tool", 500, tool.rows)
       ELSE ToolsRouted("update_tool", 200,
                        [tool.rows EXCEPT ![tool_id] = ToolUpdated(@, p)])

\* DELETE /tools/{tool_id}
delete_tool(tool_id) ==
    /\ RouteStep
    /\ IF tool_id \notin DOMAIN tool.rows
       THEN ToolsRouted("delete_tool", 404, tool.rows)
       ELSE IF \E i \in DOMAIN tool.agent_tools :
                  tool.agent_tools[i].tool_id = tool_id
       THEN ToolsRouted("delete_tool", 400, tool.rows)
       ELSE ToolsRouted("delete_tool", 204, Deleted(tool.rows, tool_id))

\* ---- the operations that make an executor of their own ----
\* the task that awaits the HTTP request is cancelled
Cancelled == Raise("CancelledError", "")

\* what the HTTP client gives back to such an operation, or its cancellation
CallerOutcomes ==
    {o \in Responses :
        \/ /\ o.status_code = 200
           /\ o.content_type = "application/json; charset=utf-8"
           /\ o.text # ""
        \/ /\ o.status_code = 404
           /\ o.content_type = "text/plain"
           /\ o.text = "oops"}
    \cup {Raise("ReadTimeout", ""), Cancelled}

\* what an operation with an executor of its own leaves behind
Ran(result, http, client) ==
    [result |-> result, http |-> http, client |-> client]

\* the result execute_tool has returned, held while close() is awaited
Held(v) == [kind |-> "closing", value |-> v]

\* await executor.close() is the statement after the await of execute_tool:
\* it is reached when execute_tool has returned.  close() awaits
\* http_client.aclose(), which marks the client closed and, when it has a
\* connection to close (yields), gives control to the event loop before
\* the caller goes on
Closing(d, yields) ==
    IF d.result.kind # "return" THEN Ran(d.result, d.http, "open")
    ELSE IF yields THEN Ran(Held(d.result.value), d.http, "closed")
    ELSE Ran(d.result, d.http, "closed")

\* the pool holds a connection when the request was answered
HoldsConnection(outcome) == outcome.kind = "response"

\* executor = ToolExecutor(); result = await executor.execute_tool(...);
\* await executor.close()
WithExecutor(tool_config, parameters, outcome, yields) ==
    Closing(Caught(Dispatch(tool_config, parameters, outcome)),
            yields /\ HoldsConnection(outcome))

\* the caller goes on after close(), or its task is cancelled there
Closed(run, cancelled) ==
    [run EXCEPT !.pc = "ended",
                !.result = IF cancelled THEN Cancelled ELSE Return(@.value)]

\* call_worker.py 164-166 and tools.py 294-298: except Exception around the
\* use of the executor
Handled(r, to) ==
    IF r.result.kind = "raise" /\ r.result.exc # "CancelledError"
    THEN [r EXCEPT !.result = to]
    ELSE r

\* the operation that is followed: suspended in the HTTP request
\* ("request"), suspended in close() ("close"), or ended
Run(op, tool_config, parameters, outcome, r) ==
    [op |-> op, pc |-> IF r.result.kind = "pending" THEN "request"
                       ELSE IF r.result.kind = "closing" THEN "close"
                       ELSE "ended",
     tool_config |-> tool_config, parameters |-> parameters,
     outcome |-> IF r.http = <<>> \/ r.result.kind = "pending"
                 THEN Absent ELSE outcome,
     result |-> r.result, http |-> r.http, client |-> r.client]

\* call_worker.py 150: next((t for t in tools if t["name"] == tool_name), None)
Matches(tools, tool_name) == {k \in DOMAIN tools : tools[k].name = tool_name}

ToolNames == {"lookup_order", "total", "refund"}
DynamicParameters ==
    {NoParameters, [NoParameters EXCEPT !.expression = "2+3*4"],
     [NoParameters EXCEPT !.expression = "1/0"]}

\* call_worker.py 155-166: the executor is made and used
DynamicExecuted(tool_config, parameters, outcome, yields) ==
    Run("execute_dynamic_tool", tool_config, parameters, outcome,
        Handled(WithExecutor(tool_config, parameters, outcome, yields),
                Return("Error executing tool")))

\* call_worker.py 150-166: the body of execute_dynamic_tool, found being the
\* positions of tools whose name is tool_name
DynamicTool(tools, found, tool_name, parameters, outcome) ==
    IF found = {}
    THEN Run("execute_dynamic_tool", Absent, parameters, outcome,
             Ran(Return("Tool '" \o tool_name \o "' not found"), <<>>, "none"))
    ELSE DynamicExecuted(tools[Min(found)], parameters, outcome, FALSE)

\* call_worker.py 147-166, from the call to its first suspension: the await
\* of the HTTP request inside execute_tool, or to the end when no request
\* is sent
execute_dynamic_tool(tool_name, parameters) ==
    /\ DynamicStep
    /\ tool.built
    /\ tool.run.pc = "ended"
    /\ tool' = [tool EXCEPT
                  !.run = [tool_name |-> tool_name] @@
                          DynamicTool(tool.tools,
                                      Matches(tool.tools, tool_name),
                                      tool_name, parameters, Pending)]

\* the HTTP client answers, raises, or the task is cancelled, and
\* execute_dynamic_tool runs from the await of the request to its next
\* suspension, in close() (call_worker.py 161), or to its end
execute_dynamic_tool_resumed(outcome, yields) ==
    /\ DynamicStep
    /\ tool.run.op = "execute_dynamic_tool"
    /\ tool.run.pc = "request"
    /\ tool' = [tool EXCEPT
                  !.run = [tool_name |-> tool.run.tool_name] @@
                          DynamicExecuted(tool.run.tool_config,
                                          tool.run.parameters, outcome,
                                          yields)]

\* call_worker.py 161-163: close() gives control back and the result is
\* returned, or the task is cancelled while close() is awaited
execute_dynamic_tool_closed(cancelled) ==
    /\ DynamicStep
    /\ tool.run.op = "execute_dynamic_tool"
    /\ tool.run.pc = "close"
    /\ tool' = [tool EXCEPT !.run = Closed(@, cancelled)]

\* tools.py 278-282: the tool_config the route builds from the row
TestConfig(tool_row) ==
    [name |-> tool_row.name, type |-> tool_row.tool_type,
     configuration |-> tool_row.configuration]

\* tools.py 286-298: the response of the route, x being what the use of the
\* executor left
TestResponse(tool_id, tool_config, x) ==
    IF x.result.kind # "return" THEN x
    ELSE [x EXCEPT !.result = Return([tool_id |-> tool_id,
                                      tool_name |-> tool_config.name,
                                      test_result |-> x.result.value])]

\* tools.py 274-298: the executor is made and used
TestExecuted(tool_id, tool_config, parameters, outcome, yields) ==
    Run("test_tool", tool_config, parameters, outcome,
        TestResponse(tool_id, tool_config,
                     Handled(WithExecutor(tool_config, parameters, outcome,
                                          yields),
                             Raise("HTTPException", "500"))))

\* tools.py 262-298: the row of that id, or 404; an inactive tool, 400
TestRow(rows, tool_id, parameters, outcome) ==
    IF tool_id \notin DOMAIN rows
    THEN Run("test_tool", Absent, parameters, outcome,
             Ran(Raise("HTTPException", "404"), <<>>, "none"))
    ELSE IF ~rows[tool_id].is_active
    THEN Run("test_tool", Absent, parameters, outcome,
             Ran(Raise("HTTPException", "400"), <<>>, "none"))
    ELSE TestExecuted(tool_id, TestConfig(rows[tool_id]), parameters, outcome,
                      FALSE)

\* tools.py 256-298, from the request to its first suspension: the await of
\* the HTTP request inside execute_tool, or to the end when no request is
\* sent
test_tool(tool_id, parameters) ==
    /\ DynamicStep
    /\ tool.run.pc = "ended"
    /\ tool' = [tool EXCEPT
                  !.run = [tool_id |-> tool_id] @@
                          TestRow(tool.rows, tool_id, parameters, Pending)]

\* the HTTP client answers, raises, or the task is cancelled, and the route
\* runs from the await of the request to its next suspension, in close()
\* (tools.py 287), or to its end
test_tool_resumed(outcome, yields) ==
    /\ DynamicStep
    /\ tool.run.op = "test_tool"
    /\ tool.run.pc = "request"
    /\ tool' = [tool EXCEPT
                  !.run = [tool_id |-> tool.run.tool_id] @@
                          TestExecuted(tool.run.tool_id, tool.run.tool_config,
                                       tool.run.parameters, outcome, yields)]

\* tools.py 287-292: close() gives control back and the response is built,
\* or the task is cancelled while close() is awaited
test_tool_closed(cancelled) ==
    /\ DynamicStep
    /\ tool.run.op = "test_tool"
    /\ tool.run.pc = "close"
    /\ tool' = [tool EXCEPT
                  !.run = TestResponse(tool.run.tool_id, tool.run.tool_config,
                                       Closed(@, cancelled))]

DynamicNext ==
    \/ agent_config
    \/ create_agent_session
    \/ \E n \in ToolNames, p \in DynamicParameters : execute_dynamic_tool(n, p)
    \/ \E o \in CallerOutcomes, y \in BOOLEAN :
          execute_dynamic_tool_resumed(o, y)
    \/ \E c \in BOOLEAN : execute_dynamic_tool_closed(c)
    \/ \E id \in ToolIdInputs, p \in DynamicParameters : test_tool(id, p)
    \/ \E o \in CallerOutcomes, y \in BOOLEAN : test_tool_resumed(o, y)
    \/ \E c \in BOOLEAN : test_tool_closed(c)
    \/ \E a \in {CallAgent, MaxAgents + 1}, id \in ToolIdInputs,
          e \in BOOLEAN, c \in Overrides : add_tool_to_agent(a, id, e, c)
    \/ \E a \in {CallAgent, MaxAgents + 1}, id \in ToolIdInputs,
          p \in AgentToolUpdates : update_agent_tool(a, id, p)
    \/ \E a \in {CallAgent, MaxAgents + 1}, id \in ToolIdInputs :
          remove_tool_from_agent(a, id)
    \/ \E p \in ToolCreates : create_tool(p)
    \/ \E id \in ToolIdInputs, p \in ToolUpdates : update_tool(id, p)
    \/ \E id \in ToolIdInputs : delete_tool(id)

DynamicSpec == DynamicInit /\ [][DynamicNext]_vars

\* C25: when the tool-test route or execute_dynamic_tool has ended, by
\* return, by an error or by cancellation, the HTTP client of the executor
\* it made is closed.
C25_ClientClosedOnEveryExit ==
    (tool.run.op \in {"test_tool", "execute_dynamic_tool"}
     /\ tool.run.pc = "ended")
    => tool.run.client \in {"none", "closed"}

\* the binding's override if it has one, else the configuration of its tool
OverrideOrBase(agent_tool) ==
    IF agent_tool.configuration # <<>> THEN agent_tool.configuration[1]
    ELSE agent_tool.tool.configuration

\* tools_data lists the enabled ones of the bindings read, each with its
\* override when it has one and the configuration of its tool otherwise
ListsOverrideOrBase(read, tools_data) ==
    LET on == {k \in DOMAIN read : read[k].is_enabled}
    IN /\ Len(tools_data) = Cardinality(on)
       /\ \A k \in on :
             \E j \in DOMAIN tools_data :
                /\ tools_data[j].name = read[k].tool.name
                /\ tools_data[j].configuration = OverrideOrBase(read[k])

\* C26: the tools the worker and the agent factory build are the enabled
\* bindings of the agent as they are when read, each with the binding's
\* override when it has one (an empty object included) and with the
\* configuration of its tool otherwise.
C26_OverrideWinsWhenPresent ==
    [][/\ (~tool.built /\ tool'.built)
          => ListsOverrideOrBase(
                 AgentToolsOf(CallAgent, tool.agent_tools, tool.rows),
                 tool'.tools)
       /\ (tool'.run.op = "create_agent_session" /\ tool'.run # tool.run)
          => ListsOverrideOrBase(
                 AgentToolsOf(CallAgent, tool.agent_tools, tool.rows),
                 tool'.run.tools)]_vars

\* C30: the agent configuration of a call lists only tools that an enabled
\* binding of the agent carries when the worker reads them;
\* execute_dynamic_tool with a name that is not in that configuration makes
\* no executor and no request and returns the not-found message; and
\* whatever the tool does, execute_dynamic_tool returns: it ends without a
\* value only when its own task is cancelled.
C30_OnlyConfiguredToolsRun ==
    [][/\ (~tool.built /\ tool'.built)
          => \A j \in DOMAIN tool'.tools :
                \E i \in DOMAIN tool.agent_tools :
                   /\ tool.agent_tools[i].agent_id = CallAgent
                   /\ tool.agent_tools[i].is_enabled
                   /\ tool.rows[tool.agent_tools[i].tool_id].name
                         = tool'.tools[j].name
       /\ tool'.run.op = "execute_dynamic_tool"
          => /\ Matches(tool'.tools, tool'.run.tool_name) = {}
                => /\ tool'.run.pc = "ended"
                   /\ tool'.run.client = "none"
                   /\ tool'.run.http = <<>>
                   /\ tool'.run.result
                         = [kind |-> "return",
                            value |-> "Tool '" \o tool'.run.tool_name
                                      \o "' not found"]
             /\ tool'.run.pc = "ended"
                => \/ tool'.run.result.kind = "return"
                   \/ tool'.run.result = Cancelled]_vars

C30_Witness ==
    /\ tool.built
    /\ tool.run.op = "execute_dynamic_tool"
    /\ tool.run.pc = "ended"
    /\ Matches(tool.tools, tool.run.tool_name) = {}
    /\ \E i \in DOMAIN tool.agent_tools :
          /\ ~tool.agent_tools[i].is_enabled
          /\ tool.rows[tool.agent_tools[i].tool_id].name = tool.run.tool_name
    /\ tool.run.client = "none"

\* ------------------------------------------------------------------------
\* C27: once register_function(name, f) has been called, a function tool
\* that names that function resolves and calls it.
C27_RegisteredStaysResolvable ==
    (/\ Executed("function")
     /\ tool.tool_config.configuration.function_name \in tool.registered)
    => /\ tool.invoked = <<tool.tool_config.configuration.function_name>>
       /\ tool.result.value.success
          \/ tool.result.value.error
             # "Function '" \o tool.tool_config.configuration.function_name
               \o "' not found"

\* C28: the payload a webhook tool sends carries the caller's parameters
\* under parameters and the timestamp under timestamp, whatever the default
\* payload holds; the data an api tool sends carries the caller's value on
\* every key the caller gave.
C28_EnvelopeSurvivesDefaults ==
    (tool.op = "execute_tool" /\ tool.http # <<>>)
    => LET sent == tool.http[1].data
           given == ParamDict(tool.parameters)
       IN /\ tool.tool_config.type = "webhook"
             => /\ sent.parameters = given
                /\ sent.timestamp = "utcnow"
          /\ tool.tool_config.type = "api"
             => \A k \in DOMAIN given : sent[k] = given[k]

\* C29: when the agent of an accepted call is no longer active at the time
\* the worker reads its configuration, the worker stops before it builds
\* the session and before it dials, and the call record becomes failed.
C29_AgentGoneMarksFailed ==
    [][(/\ Did("run_livekit_worker")
        /\ ~agents[worker[last'.call_id].dial_info.agent_id].is_active)
       => /\ last'.error \in {"import", "agent_not_found"}
          /\ last'.raised
          /\ calls'[last'.call_id].status = "failed"]_vars

C29_Witness ==
    /\ last.op = "run_livekit_worker"
    /\ last.error = "agent_not_found"
    /\ ~agents[worker[last.call_id].dial_info.agent_id].is_active
    /\ calls[last.call_id].status = "failed"

====
